---- MODULE Spec2Model ----
(***************************************************************************)
(* stakker_log: the two key-value renderers (src/kvdisp.rs, KvSingleLine;  *)
(* src/kvjson.rs, KvToJson) driven by one traversal callback.              *)
(*                                                                         *)
(* Text is a sequence of Unicode scalar values (naturals).  Option<T> is a *)
(* sequence of length 0 (None) or 1 (Some(x)).  A fmt::Formatter is the    *)
(* record [log, calls]: `calls` counts the write calls made on it and      *)
(* `log` holds, in order, the writes the sink accepted, each with the      *)
(* place in the item it was written for (`site`) and its text.  The bytes  *)
(* in the sink are the concatenation of the log's texts.                   *)
(*                                                                         *)
(* Both renderers are stepped on the same stream of visitor events, each   *)
(* with its own Visitor and its own Formatter.                             *)
(***************************************************************************)
EXTENDS Integers, Sequences, FiniteSets, TLC

\* Spec: the most events the callback issues, over the wide sets of keys and values.
MaxItems == 2
\* SpecNest: the most events the callback issues, over the narrow sets.
MaxEvents == 4
\* SpecEsc: the longest key or string value.
MaxLen == 3
\* SpecFail: the most events the callback issues, and the latest write call at
\* which the sink first fails.
MaxFailEvents == 2
MaxFailAt == 4
\* SpecJson: the most events the callback issues.
MaxJsonEvents == 4
\* SpecVisit: the most elements or entries of a container.
MaxElems == 2
MaxArgs == 3
\* SpecFmt: the most events the callback issues.
MaxFmtEvents == 3

VARIABLES
    pc,            \* "scan": inside (self.kvscan)(&mut visitor); "done": fmt returned
    callerPrefix,  \* KvSingleLine.prefix / KvToJson.prefix
    suffix,        \* KvSingleLine.suffix / KvToJson.suffix
    sink,          \* behaviour of the fmt::Write behind the Formatter
    kvdisp,        \* kvdisp::Visitor (with its Formatter)
    kvjson,        \* kvjson::Visitor (with its Formatter)
    result,        \* return value of each Display::fmt: "none", "ok", "err"
    events,        \* history: the visitor events issued so far
    stack,         \* history: the containers opened and not yet closed
    nested,        \* history: no Close so far was unmatched or mismatched
    mark,          \* history: per renderer, Len(log) and calls before the last event
    args,          \* the key-value arguments of the logging macro call, if any
    kvscan         \* the visit calls of the callback, when it is a closure of them

vars == <<pc, callerPrefix, suffix, sink, kvdisp, kvjson, result,
          events, stack, nested, mark, args, kvscan>>

----------------------------------------------------------------------------
\* Characters

SPACE == 32
DQUOTE == 34
EQUALS == 61
BACKSLASH == 92
LBRACKET == 91
RBRACKET == 93
LBRACE == 123
RBRACE == 125
COMMA == 44
COLON == 58

None == <<>>
Some(x) == <<x>>

\* One uppercase hexadecimal digit, as `{:X}` prints it.
UpperHex(d) == IF d < 10 THEN 48 + d ELSE 55 + d

\* format!("{:X}", n)
RECURSIVE fmt_X(_)
fmt_X(n) ==
    IF n < 16 THEN <<UpperHex(n)>>
    ELSE fmt_X(n \div 16) \o <<UpperHex(n % 16)>>

\* The write calls of the `0w` flag before digits s: pad_integral writes the
\* fill with one write_char per missing digit.
ZeroPad(s, w) == [i \in 1..(IF Len(s) >= w THEN 0 ELSE w - Len(s)) |-> <<48>>]

\* The write calls of write!(f, "\\{:02X}", ch as u8): the literal piece, the
\* padding, the digits; the cast keeps the low 8 bits.
write_02X(ch) ==
    LET s == fmt_X(ch % 256)
    IN  <<<<BACKSLASH>>>> \o ZeroPad(s, 2) \o <<s>>

\* The write calls of write!(f, "\\u{:04X}", ch as u32).
write_04X(ch) ==
    LET s == fmt_X(ch)
    IN  <<<<BACKSLASH, 117>>>> \o ZeroPad(s, 4) \o <<s>>

\* format!("{}", n) of a non-negative integer
RECURSIVE fmt_u64(_)
fmt_u64(n) ==
    IF n < 10 THEN <<48 + n>>
    ELSE fmt_u64(n \div 10) \o <<48 + (n % 10)>>

\* format!("{}", n) of a signed integer: '-' and the digits of the magnitude,
\* taken without negating n itself (the least value has no negation).
fmt_i64(n) ==
    IF n >= 0 THEN fmt_u64(n)
    ELSE IF n > 0 - 10 THEN <<45, 48 - n>>
    ELSE LET d == (10 - (n % 10)) % 10
         IN  <<45>> \o fmt_u64(0 - ((n + d) \div 10)) \o <<48 + d>>

\* format!("{}", b)
fmt_bool(b) == IF b THEN <<116, 114, 117, 101>> ELSE <<102, 97, 108, 115, 101>>

\* The write calls of write!(f, "{}", n) for a u64: the digits.
write_u64(n) == <<fmt_u64(n)>>

\* The write calls of write!(f, "{}", n) for an i64: the sign of a negative
\* value by write_char, then the digits.
write_i64(n) == IF n >= 0 THEN <<fmt_u64(n)>> ELSE <<<<45>>, Tail(fmt_i64(n))>>

\* The write calls of write!(f, "{}", b).
write_bool(b) == <<fmt_bool(b)>>

\* The number of '0' digits s starts with.
LeadingZeros(s) ==
    LET other == {i \in 1..Len(s) : s[i] # 48}
    IN  IF other = {} THEN Len(s)
        ELSE (CHOOSE i \in other : \A j \in other : i <= j) - 1

\* The number of '0' digits s ends with.
TrailingZeros(s) ==
    LET other == {i \in 1..Len(s) : s[i] # 48}
    IN  IF other = {} THEN Len(s)
        ELSE Len(s) - (CHOOSE i \in other : \A j \in other : i >= j)

\* The write calls of a run of n zeros (Part::Zero): 64 zeros at a time, then
\* the rest.
RECURSIVE ZeroChunks(_)
ZeroChunks(n) ==
    IF n = 0 THEN <<>>
    ELSE IF n > 64 THEN <<[i \in 1..64 |-> 48]>> \o ZeroChunks(n - 64)
    ELSE <<[i \in 1..n |-> 48]>>

\* The write calls of write!(f, "{}", x) for an f64 [nan, inf, neg, int, frac]:
\* NaN, an infinity, or the number of the shortest decimal expansion int.frac
\* (no exponent, no fraction point for a whole number).  The sign is a call of
\* its own, then each part of the number, a run of zeros being written apart
\* from the digits.
write_f64(x) ==
    IF x.nan THEN <<<<78, 97, 78>>>>
    ELSE LET int == fmt_u64(x.int)
             lz  == LeadingZeros(x.frac)
             tz  == TrailingZeros(int)
         IN  (IF x.neg THEN <<<<45>>>> ELSE <<>>)
             \o (IF x.inf THEN <<<<105, 110, 102>>>>
                 ELSE IF x.int = 0 /\ x.frac = <<>> THEN <<<<48>>>>
                 ELSE IF x.int = 0
                 THEN <<<<48, 46>>>> \o ZeroChunks(lz)
                      \o <<SubSeq(x.frac, lz + 1, Len(x.frac))>>
                 ELSE IF x.frac # <<>> THEN <<int, <<46>>, x.frac>>
                 ELSE <<SubSeq(int, 1, Len(int) - tz)>> \o ZeroChunks(tz))

----------------------------------------------------------------------------
\* The sink and the Formatter

\* Whether the sink rejects its n-th write call.
SinkFails(n) ==
    CASE sink.mode = "never" -> FALSE
      [] sink.mode = "once"  -> n = sink.at
      [] sink.mode = "from"  -> n >= sink.at

NewFormatter == [log |-> <<>>, calls |-> 0]

\* f.write_str(text) / f.write_char(ch): one write call on the sink.
\* The result is the Formatter after the call and whether it returned Ok.
fmt_write(f, site, text) ==
    LET n == f.calls + 1
    IN  [f  |-> [log   |-> IF SinkFails(n) THEN f.log
                           ELSE Append(f.log, [site |-> site, text |-> text]),
                 calls |-> n],
         ok |-> ~SinkFails(n)]

\* write!(f, ...): the write calls of the formatted text in order, up to the
\* first one that fails.
RECURSIVE write_fmt(_, _, _)
write_fmt(f, site, parts) ==
    IF parts = <<>> THEN [f |-> f, ok |-> TRUE]
    ELSE LET r == fmt_write(f, site, Head(parts))
         IN  IF r.ok THEN write_fmt(r.f, site, Tail(parts)) ELSE r

\* Mutant of catch: the error flag is not set.
catch_drops_error(v, r) == [v EXCEPT !.fmt = r.f]

\* Mutant of catch: the error flag is assigned the outcome of the call.
catch_assigns_error(v, r) == [v EXCEPT !.fmt = r.f, !.error = ~r.ok]

\* catch!(self, call): a failed call sets the sticky error flag.
catch(v, r) == [v EXCEPT !.fmt = r.f, !.error = @ \/ ~r.ok]

\* The text in the sink.
RECURSIVE Flatten(_)
Flatten(log) ==
    IF log = <<>> THEN <<>>
    ELSE log[1].text \o Flatten(Tail(log))

Bytes(v) == Flatten(v.fmt.log)

----------------------------------------------------------------------------
\* src/kvdisp.rs: the single-line renderer

\* Mutant of is_reserved: '\\' is not in the set.
is_reserved_without_backslash(ch) ==
    \/ ch <= SPACE
    \/ ch = DQUOTE
    \/ ch = EQUALS
    \/ ch = LBRACKET
    \/ ch = RBRACKET
    \/ ch = LBRACE
    \/ ch = RBRACE

is_reserved(ch) ==
    \/ ch <= SPACE
    \/ ch = DQUOTE
    \/ ch = EQUALS
    \/ ch = BACKSLASH
    \/ ch = LBRACKET
    \/ ch = RBRACKET
    \/ ch = LBRACE
    \/ ch = RBRACE

\* Mutant of kvdisp_val_char: the space is escaped too (`ch <= ' '`).
kvdisp_val_char_escapes_space(ch) ==
    IF ch <= SPACE \/ ch = DQUOTE \/ ch = BACKSLASH
    THEN write_02X(ch)
    ELSE <<<<ch>>>>

\* The write calls push_str_val makes for one character inside quotes.
kvdisp_val_char(ch) ==
    IF ch < SPACE \/ ch = DQUOTE \/ ch = BACKSLASH
    THEN write_02X(ch)
    ELSE <<<<ch>>>>

\* The `for ch in val.chars()` loop of push_str_val from character i on; `?`
\* leaves the loop at the first failed write.
RECURSIVE kvdisp_val_loop(_, _, _)
kvdisp_val_loop(r, val, i) ==
    IF i > Len(val) \/ ~r.ok THEN r
    ELSE kvdisp_val_loop(write_fmt(r.f, "val", kvdisp_val_char(val[i])), val, i + 1)

push_str_val(f, val) ==
    IF \E i \in 1..Len(val) : is_reserved(val[i])
    THEN LET r1 == fmt_write(f, "val", <<DQUOTE>>)
             r2 == kvdisp_val_loop(r1, val, 1)
         IN  IF r2.ok THEN fmt_write(r2.f, "val", <<DQUOTE>>) ELSE r2
    ELSE fmt_write(f, "val", val)

kvdisp_new(prefix) ==
    [fmt    |-> NewFormatter,
     fmtbuf |-> <<>>,
     alloc  |-> FALSE,
     prefix |-> prefix,
     empty  |-> TRUE,
     error  |-> FALSE]

\* Mutant of kvdisp_key_char: the test of push_str_val in place of is_reserved.
kvdisp_key_char_as_val(ch) ==
    IF ch < SPACE \/ ch = DQUOTE \/ ch = BACKSLASH
    THEN write_02X(ch)
    ELSE <<<<ch>>>>

\* The write calls push_key makes for one character of a key.
kvdisp_key_char(ch) ==
    IF is_reserved(ch) THEN write_02X(ch) ELSE <<<<ch>>>>

\* The `for ch in key.chars()` loop of push_key: every write is caught, so the
\* loop always runs to the end of the key.
RECURSIVE kvdisp_key_loop(_, _, _)
kvdisp_key_loop(v, key, i) ==
    IF i > Len(key) THEN v
    ELSE kvdisp_key_loop(catch(v, write_fmt(v.fmt, "key", kvdisp_key_char(key[i]))),
                         key, i + 1)

\* Mutant of kvdisp_push_key: `self.prefix = " "` is missing.
kvdisp_push_key_keeps_prefix(v, key, sep) ==
    LET v1 == catch(v, fmt_write(v.fmt, "pending", v.prefix))
        v2 == [v1 EXCEPT !.empty = FALSE]
    IN  IF key = None THEN v2
        ELSE LET v3 == IF key[1] = <<>>
                       THEN catch(v2, fmt_write(v2.fmt, "key", <<BACKSLASH, 50, 48>>))
                       ELSE kvdisp_key_loop(v2, key[1], 1)
             IN  IF sep = None THEN v3
                 ELSE catch(v3, fmt_write(v3.fmt, "sep", <<sep[1]>>))

\* Mutant of kvdisp_push_key: `?` in place of catch! on the first write, so a
\* failed write leaves the handler's remaining steps undone.
kvdisp_push_key_returns_on_error(v, key, sep) ==
    LET r  == fmt_write(v.fmt, "pending", v.prefix)
        v1 == catch(v, r)
        v2 == [v1 EXCEPT !.empty = FALSE, !.prefix = <<SPACE>>]
    IN  IF ~r.ok THEN v1
        ELSE IF key = None THEN v2
        ELSE LET v3 == IF key[1] = <<>>
                       THEN catch(v2, fmt_write(v2.fmt, "key", <<BACKSLASH, 50, 48>>))
                       ELSE kvdisp_key_loop(v2, key[1], 1)
             IN  IF sep = None THEN v3
                 ELSE catch(v3, fmt_write(v3.fmt, "sep", <<sep[1]>>))

kvdisp_push_key(v, key, sep) ==
    LET v1 == catch(v, fmt_write(v.fmt, "pending", v.prefix))
        v2 == [v1 EXCEPT !.empty = FALSE, !.prefix = <<SPACE>>]
    IN  IF key = None THEN v2
        ELSE LET v3 == IF key[1] = <<>>
                       THEN catch(v2, fmt_write(v2.fmt, "key", <<BACKSLASH, 50, 48>>))
                       ELSE kvdisp_key_loop(v2, key[1], 1)
             IN  IF sep = None THEN v3
                 ELSE catch(v3, fmt_write(v3.fmt, "sep", <<sep[1]>>))

\* Mutant of kvdisp_kv_u64: nothing is written once the error flag is set.
kvdisp_kv_u64_checks_error(v, key, val) ==
    IF v.error THEN v
    ELSE LET v1 == kvdisp_push_key(v, key, Some(EQUALS))
         IN  catch(v1, write_fmt(v1.fmt, "val", write_u64(val)))

kvdisp_kv_u64(v, key, val) ==
    LET v1 == kvdisp_push_key(v, key, Some(EQUALS))
    IN  catch(v1, write_fmt(v1.fmt, "val", write_u64(val)))

kvdisp_kv_i64(v, key, val) ==
    LET v1 == kvdisp_push_key(v, key, Some(EQUALS))
    IN  catch(v1, write_fmt(v1.fmt, "val", write_i64(val)))

kvdisp_kv_f64(v, key, val) ==
    LET v1 == kvdisp_push_key(v, key, Some(EQUALS))
    IN  catch(v1, write_fmt(v1.fmt, "val", write_f64(val)))

kvdisp_kv_bool(v, key, val) ==
    LET v1 == kvdisp_push_key(v, key, Some(EQUALS))
    IN  catch(v1, write_fmt(v1.fmt, "val", write_bool(val)))

\* Mutant of kvdisp_kv_null: push_key is given '=' as for the other scalars.
kvdisp_kv_null_with_equals(v, key) == kvdisp_push_key(v, key, Some(EQUALS))

\* Mutant of kvdisp_kv_null: a null with no key, which has no text, is skipped.
kvdisp_kv_null_skips_unkeyed(v, key) ==
    IF key = None THEN v ELSE kvdisp_push_key(v, key, None)

kvdisp_kv_null(v, key) == kvdisp_push_key(v, key, None)

kvdisp_kv_str(v, key, val) ==
    LET v1 == kvdisp_push_key(v, key, Some(EQUALS))
    IN  catch(v1, push_str_val(v1.fmt, val))

\* val is a fmt::Arguments: [text, err], the text its formatting writes and
\* whether its formatting then returns Err.  alloc is `self.fmtbuf.capacity()
\* != 0`, all that the handler reads of the capacity: false for String::new(),
\* true from String::with_capacity(1024) on (clear and write! never lower it).
kvdisp_kv_fmt(v, key, val) ==
    LET v1 == kvdisp_push_key(v, key, Some(EQUALS))
        v2 == [v1 EXCEPT !.alloc = TRUE]
        v3 == [v2 EXCEPT !.fmtbuf = <<>>]
        v4 == [v3 EXCEPT !.fmtbuf = @ \o val.text,
                         !.error = @ \/ val.err]
    IN  catch(v4, push_str_val(v4.fmt, v4.fmtbuf))

\* Mutant of kvdisp_kv_map: `self.prefix = ""` is missing.
kvdisp_kv_map_keeps_prefix(v, key) ==
    LET v1 == kvdisp_push_key(v, key, None)
    IN  catch(v1, fmt_write(v1.fmt, "open", <<LBRACE>>))

kvdisp_kv_map(v, key) ==
    LET v1 == kvdisp_push_key(v, key, None)
        v2 == catch(v1, fmt_write(v1.fmt, "open", <<LBRACE>>))
    IN  [v2 EXCEPT !.prefix = <<>>]

\* Mutant of kvdisp_kv_mapend: `self.prefix = " "` is missing.
kvdisp_kv_mapend_keeps_prefix(v, key) ==
    catch(v, fmt_write(v.fmt, "close", <<RBRACE>>))

\* Mutant of kvdisp_kv_mapend: the key is written before the bracket.
kvdisp_kv_mapend_writes_key(v, key) ==
    LET v0 == kvdisp_push_key(v, key, None)
        v1 == catch(v0, fmt_write(v0.fmt, "close", <<RBRACE>>))
    IN  [v1 EXCEPT !.prefix = <<SPACE>>]

kvdisp_kv_mapend(v, key) ==
    LET v1 == catch(v, fmt_write(v.fmt, "close", <<RBRACE>>))
    IN  [v1 EXCEPT !.prefix = <<SPACE>>]

kvdisp_kv_arr(v, key) ==
    LET v1 == kvdisp_push_key(v, key, None)
        v2 == catch(v1, fmt_write(v1.fmt, "open", <<LBRACKET>>))
    IN  [v2 EXCEPT !.prefix = <<>>]

\* Mutant of kvdisp_kv_arrend: a Close before any item counts as an error.
kvdisp_kv_arrend_rejects_unopened(v, key) ==
    LET v1 == catch(v, fmt_write(v.fmt, "close", <<RBRACKET>>))
    IN  [v1 EXCEPT !.prefix = <<SPACE>>, !.error = @ \/ v.empty]

kvdisp_kv_arrend(v, key) ==
    LET v1 == catch(v, fmt_write(v.fmt, "close", <<RBRACKET>>))
    IN  [v1 EXCEPT !.prefix = <<SPACE>>]

\* Mutant of kvdisp_fmt: the `else if visitor.empty` arm is missing.
kvdisp_fmt_no_empty_arm(v, sfx) ==
    IF v.error THEN [v |-> v, res |-> "err"]
    ELSE LET r == fmt_write(v.fmt, "suffix", sfx)
         IN  [v |-> [v EXCEPT !.fmt = r.f], res |-> IF r.ok THEN "ok" ELSE "err"]

\* impl Display for KvSingleLine, after (self.kvscan)(&mut visitor) returned:
\* the Visitor at the end and the value fmt returns.
kvdisp_fmt(v, sfx) ==
    IF v.error THEN [v |-> v, res |-> "err"]
    ELSE IF v.empty THEN [v |-> v, res |-> "ok"]
    ELSE LET r == fmt_write(v.fmt, "suffix", sfx)
         IN  [v |-> [v EXCEPT !.fmt = r.f], res |-> IF r.ok THEN "ok" ELSE "err"]

----------------------------------------------------------------------------
\* src/kvjson.rs: the JSON renderer

\* The closure of push_str_literal's val.find(..): a character to escape.
kvjson_needs_escape(ch) == ch < SPACE \/ ch = DQUOTE \/ ch = BACKSLASH

\* Mutant of kvjson_literal_char: the arm for '"' and '\' is missing.
kvjson_literal_char_no_quote_arm(f, site, ch) ==
    IF ch >= 0 /\ ch <= 31
    THEN write_fmt(f, site, write_04X(ch))
    ELSE fmt_write(f, site, <<ch>>)

\* One turn of the `for ch in val.chars()` loop of push_str_literal: the match
\* on ch, with `?` after each write.
kvjson_literal_char(f, site, ch) ==
    IF ch = DQUOTE \/ ch = BACKSLASH
    THEN LET r1 == fmt_write(f, site, <<BACKSLASH>>)
         IN  IF r1.ok THEN fmt_write(r1.f, site, <<ch>>) ELSE r1
    ELSE IF ch >= 0 /\ ch <= 31
    THEN write_fmt(f, site, write_04X(ch))
    ELSE fmt_write(f, site, <<ch>>)

RECURSIVE kvjson_literal_loop(_, _, _, _)
kvjson_literal_loop(r, site, val, i) ==
    IF i > Len(val) \/ ~r.ok THEN r
    ELSE kvjson_literal_loop(kvjson_literal_char(r.f, site, val[i]), site, val, i + 1)

\* Mutant of push_str_literal: the text is always written by the fast path.
push_str_literal_never_escapes(f, site, val) ==
    LET r1 == fmt_write(f, site, <<DQUOTE>>)
        r2 == IF ~r1.ok THEN r1 ELSE fmt_write(r1.f, site, val)
    IN  IF r2.ok THEN fmt_write(r2.f, site, <<DQUOTE>>) ELSE r2

\* site: whether the literal is an item's key or its value.
push_str_literal(f, site, val) ==
    LET r1 == fmt_write(f, site, <<DQUOTE>>)
        r2 == IF ~r1.ok THEN r1
              ELSE IF \E i \in 1..Len(val) : kvjson_needs_escape(val[i])
              THEN kvjson_literal_loop(r1, site, val, 1)
              ELSE fmt_write(r1.f, site, val)
    IN  IF r2.ok THEN fmt_write(r2.f, site, <<DQUOTE>>) ELSE r2

kvjson_new(prefix) ==
    [fmt    |-> NewFormatter,
     fmtbuf |-> <<>>,
     alloc  |-> FALSE,
     prefix |-> prefix,
     empty  |-> TRUE,
     error  |-> FALSE]

\* Mutant of kvjson_push_key: the ':' is written for an item with no key too.
kvjson_push_key_always_colon(v, key) ==
    LET v1 == catch(v, fmt_write(v.fmt, "pending", v.prefix))
        v2 == [v1 EXCEPT !.prefix = <<COMMA>>, !.empty = FALSE]
        v3 == IF key = None THEN v2
              ELSE catch(v2, push_str_literal(v2.fmt, "key", key[1]))
    IN  catch(v3, fmt_write(v3.fmt, "sep", <<COLON>>))

kvjson_push_key(v, key) ==
    LET v1 == catch(v, fmt_write(v.fmt, "pending", v.prefix))
        v2 == [v1 EXCEPT !.prefix = <<COMMA>>, !.empty = FALSE]
    IN  IF key = None THEN v2
        ELSE LET v3 == catch(v2, push_str_literal(v2.fmt, "key", key[1]))
             IN  catch(v3, fmt_write(v3.fmt, "sep", <<COLON>>))

kvjson_kv_u64(v, key, val) ==
    LET v1 == kvjson_push_key(v, key)
    IN  catch(v1, write_fmt(v1.fmt, "val", write_u64(val)))

kvjson_kv_i64(v, key, val) ==
    LET v1 == kvjson_push_key(v, key)
    IN  catch(v1, write_fmt(v1.fmt, "val", write_i64(val)))

kvjson_kv_f64(v, key, val) ==
    LET v1 == kvjson_push_key(v, key)
    IN  catch(v1, write_fmt(v1.fmt, "val", write_f64(val)))

kvjson_kv_bool(v, key, val) ==
    LET v1 == kvjson_push_key(v, key)
    IN  catch(v1, write_fmt(v1.fmt, "val", write_bool(val)))

kvjson_kv_null(v, key) ==
    LET v1 == kvjson_push_key(v, key)
    IN  catch(v1, fmt_write(v1.fmt, "val", <<110, 117, 108, 108>>))

kvjson_kv_str(v, key, val) ==
    LET v1 == kvjson_push_key(v, key)
    IN  catch(v1, push_str_literal(v1.fmt, "val", val))

\* Mutant of kvjson_kv_fmt: `self.fmtbuf.clear()` is missing.
kvjson_kv_fmt_keeps_fmtbuf(v, key, val) ==
    LET v1 == kvjson_push_key(v, key)
        v2 == [v1 EXCEPT !.alloc = TRUE]
        v4 == [v2 EXCEPT !.fmtbuf = @ \o val.text,
                         !.error = @ \/ val.err]
    IN  catch(v4, push_str_literal(v4.fmt, "val", v4.fmtbuf))

kvjson_kv_fmt(v, key, val) ==
    LET v1 == kvjson_push_key(v, key)
        v2 == [v1 EXCEPT !.alloc = TRUE]
        v3 == [v2 EXCEPT !.fmtbuf = <<>>]
        v4 == [v3 EXCEPT !.fmtbuf = @ \o val.text,
                         !.error = @ \/ val.err]
    IN  catch(v4, push_str_literal(v4.fmt, "val", v4.fmtbuf))

kvjson_kv_map(v, key) ==
    LET v1 == kvjson_push_key(v, key)
        v2 == catch(v1, fmt_write(v1.fmt, "open", <<LBRACE>>))
    IN  [v2 EXCEPT !.prefix = <<>>]

\* Mutant of kvjson_kv_mapend: `self.prefix = ","` is missing.
kvjson_kv_mapend_keeps_prefix(v, key) ==
    catch(v, fmt_write(v.fmt, "close", <<RBRACE>>))

kvjson_kv_mapend(v, key) ==
    LET v1 == catch(v, fmt_write(v.fmt, "close", <<RBRACE>>))
    IN  [v1 EXCEPT !.prefix = <<COMMA>>]

kvjson_kv_arr(v, key) ==
    LET v1 == kvjson_push_key(v, key)
        v2 == catch(v1, fmt_write(v1.fmt, "open", <<LBRACKET>>))
    IN  [v2 EXCEPT !.prefix = <<>>]

\* Mutant of kvjson_kv_arrend: the pending separator becomes empty.
kvjson_kv_arrend_clears_prefix(v, key) ==
    LET v1 == catch(v, fmt_write(v.fmt, "close", <<RBRACKET>>))
    IN  [v1 EXCEPT !.prefix = <<>>]

kvjson_kv_arrend(v, key) ==
    LET v1 == catch(v, fmt_write(v.fmt, "close", <<RBRACKET>>))
    IN  [v1 EXCEPT !.prefix = <<COMMA>>]

\* impl Display for KvToJson, after (self.kvscan)(&mut visitor) returned.
kvjson_fmt(v, sfx) ==
    IF v.error THEN [v |-> v, res |-> "err"]
    ELSE IF v.empty THEN [v |-> v, res |-> "ok"]
    ELSE LET r == fmt_write(v.fmt, "suffix", sfx)
         IN  [v |-> [v EXCEPT !.fmt = r.f], res |-> IF r.ok THEN "ok" ELSE "err"]

----------------------------------------------------------------------------
\* src/visit.rs: Visitable
\*
\* A type is the sequence of its names from the outside in: <<"Vec", "u8">> is
\* Vec<u8>, <<"BTreeMap", "Vec", "str">> is BTreeMap<K, Vec<&str>> (K: AsRef<str>).
\* An integer value is the integer, a char its scalar value, a str its text,
\* a sequence container the sequence self.iter() yields, a map the sequence of
\* <<key, value>> its iteration yields.

UnsignedTypes == {"u8", "u16", "u32", "u64", "usize"}
SignedTypes == {"i8", "i16", "i32", "i64", "isize"}
FloatTypes == {"f32", "f64"}
StringTypes == {"str", "String"}
DisplayTypes == {"char", "u128", "i128"}
ArrTypes == {"slice", "Vec", "VecDeque", "LinkedList", "HashSet", "BTreeSet", "BinaryHeap"}
MapTypes == {"HashMap", "BTreeMap"}

\* std::mem::size_of, in bytes (a 64-bit target for usize and isize).
size_of(t) ==
    CASE t \in {"u8", "i8"} -> 1
      [] t \in {"u16", "i16"} -> 2
      [] t \in {"u32", "i32"} -> 4
      [] OTHER -> 8

\* The w bytes of the integer n in two's complement, the lowest first.
RECURSIVE le_bytes(_, _)
le_bytes(n, w) ==
    IF w = 0 THEN <<>> ELSE <<n % 256>> \o le_bytes(n \div 256, w - 1)

\* Widening to w bytes with the byte `fill`.
RECURSIVE extend(_, _, _)
extend(b, w, fill) == IF Len(b) >= w THEN b ELSE extend(Append(b, fill), w, fill)

zero_extend(b) == extend(b, 8, 0)
sign_extend(b) == extend(b, 8, IF b[Len(b)] >= 128 THEN 255 ELSE 0)

\* The integer that bytes (lowest first) denote as an unsigned and as a signed
\* quantity.
RECURSIVE unsigned_value(_)
unsigned_value(b) ==
    IF b = <<>> THEN 0
    ELSE IF \A i \in 1..Len(b) : b[i] = 0 THEN 0
    ELSE b[1] + 256 * unsigned_value(Tail(b))

signed_value(b) ==
    IF b[Len(b)] >= 128
    THEN 0 - unsigned_value([i \in 1..Len(b) |-> 255 - b[i]]) - 1
    ELSE unsigned_value(b)

\* `*self as u64` for self: fr, an unsigned type.
as_u64(fr, n) == unsigned_value(zero_extend(le_bytes(n, size_of(fr))))

\* Mutant of as_i64: the value is widened as an unsigned one.
as_i64_zero_extends(fr, n) == signed_value(zero_extend(le_bytes(n, size_of(fr))))

\* `*self as i64` for self: fr, a signed type.
as_i64(fr, n) == signed_value(sign_extend(le_bytes(n, size_of(fr))))

\* Mutant of to_display: the format is "{:?}", which quotes a char.
to_display_debug(t, val) ==
    [text |-> CASE t = "char" -> <<39, val, 39>>
                [] t = "u128" -> fmt_u64(val)
                [] t = "i128" -> fmt_i64(val),
     err  |-> FALSE]

\* format_args!("{}", *self) for a char, a u128, an i128.
to_display(t, val) ==
    [text |-> CASE t = "char" -> <<val>>
                [] t = "u128" -> fmt_u64(val)
                [] t = "i128" -> fmt_i64(val),
     err  |-> FALSE]

RECURSIVE visit(_, _, _)
RECURSIVE visit_iter(_, _, _)
RECURSIVE visit_entries(_, _, _)

\* Mutant of visit_arr: the array is closed with no key.
visit_arr_closes_unkeyed(ty, val, key) ==
    <<[kind |-> "arr", key |-> key]>>
    \o visit_iter(Tail(ty), val, 1)
    \o <<[kind |-> "arrend", key |-> None]>>

\* visit_arr!: the events of self.visit(key, output) for a sequence container.
visit_arr(ty, val, key) ==
    <<[kind |-> "arr", key |-> key]>>
    \o visit_iter(Tail(ty), val, 1)
    \o <<[kind |-> "arrend", key |-> key]>>

\* Mutant of visit_map: kv_mapend is not called.
visit_map_leaves_open(ty, val, key) ==
    <<[kind |-> "map", key |-> key]>>
    \o visit_entries(Tail(ty), val, 1)

\* visit_map!
visit_map(ty, val, key) ==
    <<[kind |-> "map", key |-> key]>>
    \o visit_entries(Tail(ty), val, 1)
    \o <<[kind |-> "mapend", key |-> key]>>

\* for v in self.iter() { v.visit(None, output); }
visit_iter(ty, vals, i) ==
    IF i > Len(vals) THEN <<>>
    ELSE visit(ty, vals[i], None) \o visit_iter(ty, vals, i + 1)

\* for (k, v) in self { v.visit(Some(k.as_ref()), output); }
visit_entries(ty, ents, i) ==
    IF i > Len(ents) THEN <<>>
    ELSE visit(ty, ents[i][2], Some(ents[i][1])) \o visit_entries(ty, ents, i + 1)

\* The events of val.visit(key, output) for val: ty.
visit(ty, val, key) ==
    LET t == Head(ty)
    IN  CASE t \in UnsignedTypes -> <<[kind |-> "u64", key |-> key, val |-> as_u64(t, val)]>>
          [] t \in SignedTypes   -> <<[kind |-> "i64", key |-> key, val |-> as_i64(t, val)]>>
          [] t \in FloatTypes    -> <<[kind |-> "f64", key |-> key, val |-> val]>>
          [] t = "bool"          -> <<[kind |-> "bool", key |-> key, val |-> val]>>
          [] t = "unit"          -> <<[kind |-> "null", key |-> key]>>
          [] t \in StringTypes   -> <<[kind |-> "str", key |-> key, val |-> val]>>
          [] t = "Arguments"     -> <<[kind |-> "fmt", key |-> key, val |-> val]>>
          [] t \in DisplayTypes  -> <<[kind |-> "fmt", key |-> key, val |-> to_display(t, val)]>>
          [] t \in ArrTypes      -> visit_arr(ty, val, key)
          [] t \in MapTypes      -> visit_map(ty, val, key)

\* The events of a callback that makes the visit calls `calls`, from the i-th on.
RECURSIVE closure_events(_, _)
closure_events(calls, i) ==
    IF i > Len(calls) THEN <<>>
    ELSE visit(calls[i].ty, calls[i].val, calls[i].key) \o closure_events(calls, i + 1)

----------------------------------------------------------------------------
\* src/macros.rs: log!

\* A key-value argument of a logging macro call, as tokens:
\*   sigil   "" (plain), "%" (Display) or "?" (Debug);
\*   form    "path" (key1.key2...), "ident" (key: value), "literal" ("key": value);
\*   path    the identifiers of a path, or the one identifier of `key:`;
\*   lit     the text of a literal key;
\*   expr    the value expression (for a path, the path itself).

\* ::std::stringify!($key) for the identifiers of LogIdents.
stringify(id) ==
    CASE id = "j" -> <<106>>
      [] id = "k" -> <<107>>
      [] id = "s" -> <<115>>

\* log_key_string!: the last identifier of a dotted path, as a string.
RECURSIVE log_key_string(_)
log_key_string(path) ==
    IF Len(path) = 1 THEN stringify(path[1]) ELSE log_key_string(Tail(path))

\* The value of a value expression at the call site: its type and value.
eval(expr) ==
    CASE expr = "s.k"   -> [ty |-> <<"u8">>, val |-> 255]
      [] expr = "j"     -> [ty |-> <<"bool">>, val |-> TRUE]
      [] expr = "s.j.k" -> [ty |-> <<"str">>, val |-> <<97, 98>>]
      [] expr = "-7i16" -> [ty |-> <<"i16">>, val |-> 0 - 7]
      [] expr = "()"    -> [ty |-> <<"unit">>, val |-> <<>>]

\* format_args!("{}", v) and format_args!("{:?}", v) for v of the types of
\* eval; the Debug text of a str with nothing to escape is the str in quotes.
\* () has Debug and no Display: format_args!("{}", v) has no value for it.
format_args(spec, v) ==
    [text |-> CASE Head(v.ty) \in UnsignedTypes -> fmt_u64(v.val)
                [] Head(v.ty) \in SignedTypes   -> fmt_i64(v.val)
                [] Head(v.ty) = "bool"          -> fmt_bool(v.val)
                [] Head(v.ty) = "unit" /\ spec = "{:?}" -> <<40, 41>>
                [] Head(v.ty) \in StringTypes   ->
                       IF spec = "{:?}" THEN <<DQUOTE>> \o v.val \o <<DQUOTE>> ELSE v.val,
     err  |-> FALSE]

\* The ($key, $val) pair that the rule matching the argument appends.
log_pair(arg) ==
    LET key == CASE arg.form = "path"    -> log_key_string(arg.path)
                 [] arg.form = "ident"   -> stringify(arg.path[1])
                 [] arg.form = "literal" -> arg.lit
        v == eval(arg.expr)
    IN  CASE arg.sigil = ""  -> [key |-> key, ty |-> v.ty, val |-> v.val]
          [] arg.sigil = "%" -> [key |-> key, ty |-> <<"Arguments">>,
                                 val |-> format_args("{}", v)]
          [] arg.sigil = "?" -> [key |-> key, ty |-> <<"Arguments">>,
                                 val |-> format_args("{:?}", v)]

\* The final rule: |output| { $( $val.visit(Some($key), output); )* }
log_closure(a) ==
    [i \in 1..Len(a) |-> [ty |-> a[i].ty, val |-> a[i].val, key |-> Some(a[i].key)]]

\* Whether the expansion of the rule matching the argument compiles.  A logging
\* macro reaches log! in expression position (the rules of the initial part
\* and every rule around a recursive call written with {{ }} hold the call as
\* the value of a block).  The rule for `"key": ?value` is written with single
\* braces and expands to a `let` statement before the call, which is no
\* expression; format_args!("{}", v) needs Display, which () has not.
rule_compiles(arg) ==
    /\ ~(arg.sigil = "?" /\ arg.form = "literal")
    /\ arg.sigil = "%" => Head(eval(arg.expr).ty) # "unit"

RECURSIVE log_macro(_, _)

\* Mutant of log_macro: a rule puts its pair in front of the accumulated ones.
log_macro_prepends(a, tail) ==
    IF tail = <<>> THEN [ok |-> TRUE, closure |-> log_closure(a)]
    ELSE IF ~rule_compiles(Head(tail)) THEN [ok |-> FALSE, closure |-> <<>>]
    ELSE log_macro(<<log_pair(Head(tail))>> \o a, Tail(tail))

\* log!([$($a)*] kv-args...): each rule takes the first argument, appends its
\* pair to the accumulator and recurses on the rest; with none left the final
\* rule builds the closure.  [ok, closure]: whether the call compiles, and the
\* closure it then builds.
log_macro(a, tail) ==
    IF tail = <<>> THEN [ok |-> TRUE, closure |-> log_closure(a)]
    ELSE IF ~rule_compiles(Head(tail)) THEN [ok |-> FALSE, closure |-> <<>>]
    ELSE log_macro(Append(a, log_pair(Head(tail))), Tail(tail))

----------------------------------------------------------------------------
\* One formatting call as a whole

\* A call through &mut dyn LogVisitor: the method of the event's kind.
kvdisp_handle(v, e) ==
    CASE e.kind = "u64"    -> kvdisp_kv_u64(v, e.key, e.val)
      [] e.kind = "i64"    -> kvdisp_kv_i64(v, e.key, e.val)
      [] e.kind = "f64"    -> kvdisp_kv_f64(v, e.key, e.val)
      [] e.kind = "bool"   -> kvdisp_kv_bool(v, e.key, e.val)
      [] e.kind = "null"   -> kvdisp_kv_null(v, e.key)
      [] e.kind = "str"    -> kvdisp_kv_str(v, e.key, e.val)
      [] e.kind = "fmt"    -> kvdisp_kv_fmt(v, e.key, e.val)
      [] e.kind = "map"    -> kvdisp_kv_map(v, e.key)
      [] e.kind = "mapend" -> kvdisp_kv_mapend(v, e.key)
      [] e.kind = "arr"    -> kvdisp_kv_arr(v, e.key)
      [] e.kind = "arrend" -> kvdisp_kv_arrend(v, e.key)

kvjson_handle(v, e) ==
    CASE e.kind = "u64"    -> kvjson_kv_u64(v, e.key, e.val)
      [] e.kind = "i64"    -> kvjson_kv_i64(v, e.key, e.val)
      [] e.kind = "f64"    -> kvjson_kv_f64(v, e.key, e.val)
      [] e.kind = "bool"   -> kvjson_kv_bool(v, e.key, e.val)
      [] e.kind = "null"   -> kvjson_kv_null(v, e.key)
      [] e.kind = "str"    -> kvjson_kv_str(v, e.key, e.val)
      [] e.kind = "fmt"    -> kvjson_kv_fmt(v, e.key, e.val)
      [] e.kind = "map"    -> kvjson_kv_map(v, e.key)
      [] e.kind = "mapend" -> kvjson_kv_mapend(v, e.key)
      [] e.kind = "arr"    -> kvjson_kv_arr(v, e.key)
      [] e.kind = "arrend" -> kvjson_kv_arrend(v, e.key)

\* (self.kvscan)(&mut visitor) for a callback that issues the events evs, from
\* the i-th on.
RECURSIVE kvdisp_kvscan(_, _, _)
kvdisp_kvscan(v, evs, i) ==
    IF i > Len(evs) THEN v ELSE kvdisp_kvscan(kvdisp_handle(v, evs[i]), evs, i + 1)

RECURSIVE kvjson_kvscan(_, _, _)
kvjson_kvscan(v, evs, i) ==
    IF i > Len(evs) THEN v ELSE kvjson_kvscan(kvjson_handle(v, evs[i]), evs, i + 1)

----------------------------------------------------------------------------
\* The inputs: what the caller passes to new(), and what the traversal
\* callback passes to the visitor.

\* (prefix, suffix): (" ", "") and (",", "") as in the tests of kvdisp.rs and
\* kvjson.rs, ("{", "}") as in test.rs, and ("", "}").
Framings == {<<<<SPACE>>, <<>>>>, <<<<COMMA>>, <<>>>>,
             <<<<LBRACE>>, <<RBRACE>>>>, <<<<>>, <<RBRACE>>>>}
NestFramings == {<<<<SPACE>>, <<>>>>, <<<<COMMA>>, <<RBRACE>>>>}

\* No key, the empty key, "k".
Keys == {None, Some(<<>>), Some(<<107>>)}
\* 0 and 4321 (test.rs).
U64Vals == {0, 4321}
\* -1234 (test.rs).
I64Vals == {0 - 1234}
\* 1.234 (test.rs), NaN and the negative infinity.
F64Vals == {[nan |-> FALSE, inf |-> FALSE, neg |-> FALSE, int |-> 1, frac |-> <<50, 51, 52>>],
            [nan |-> TRUE, inf |-> FALSE, neg |-> FALSE, int |-> 0, frac |-> <<>>],
            [nan |-> FALSE, inf |-> TRUE, neg |-> TRUE, int |-> 0, frac |-> <<>>]}
\* "ab", "a b" and the empty text.
StrVals == {<<97, 98>>, <<97, SPACE, 98>>, <<>>}
\* format_args! values whose formatting succeeds: "ab", "a\"".
FmtVals == {[text |-> <<97, 98>>, err |-> FALSE],
            [text |-> <<97, DQUOTE>>, err |-> FALSE]}

\* SpecNest: no key, "k".
NestKeys == {None, Some(<<107>>)}

\* SpecEsc: tab, US, space, '"', '=', '[', '\', ']', 'a', '{', '}', DEL,
\* e-acute, the euro sign.
EscChars == {9, 31, SPACE, DQUOTE, EQUALS, LBRACKET, BACKSLASH, RBRACKET, 97,
             LBRACE, RBRACE, 127, 233, 8364}
EscStrings == UNION {[1..n -> EscChars] : n \in 0..MaxLen}

\* SpecFail: a sink that rejects one write call, or every write call from one on.
FailingSinks == {[mode |-> m, at |-> n] : m \in {"once", "from"}, n \in 1..MaxFailAt}
\* SpecFail: format_args! values, one of them of a Display that returns Err.
FailFmtVals == {[text |-> <<97, 98>>, err |-> FALSE],
                [text |-> <<97>>, err |-> TRUE]}

\* SpecJson: the keys "k" and '"', tab; the values "ab" and '\', US, '"'.
JsonKeys == {<<107>>, <<DQUOTE, 9>>}
JsonStrVals == {<<97, 98>>, <<BACKSLASH, 31, DQUOTE>>}

\* SpecVisit: the values visited.  Integers at the ends of each type's range,
\* up to 2^31 - 1 in magnitude.
IntVals(t) ==
    CASE t = "u8"  -> {0, 127, 128, 255}
      [] t = "u16" -> {0, 32768, 65535}
      [] t \in {"u32", "u64", "usize", "u128"} -> {0, 4321, 2147483647}
      [] t = "i8"  -> {0 - 128, 0 - 1, 0, 127}
      [] t = "i16" -> {0 - 32768, 0 - 1, 32767}
      [] t \in {"i32", "i64", "isize", "i128"} -> {0 - 2147483647 - 1, 0 - 1234, 2147483647}

\* The keys of map entries: "j", "k" and the empty key.
MapKeys == {<<106>>, <<107>>, <<>>}

\* a < b for str (Ord for str: by code points, a prefix first).
RECURSIVE TextLess(_, _)
TextLess(a, b) ==
    IF b = <<>> THEN FALSE
    ELSE IF a = <<>> THEN TRUE
    ELSE IF a[1] # b[1] THEN a[1] < b[1]
    ELSE TextLess(Tail(a), Tail(b))

SeqsUpTo(S) == UNION {[1..n -> S] : n \in 0..MaxElems}

\* What self.iter() of a sequence container c with elements of S can yield: a
\* HashSet yields no element twice, a BTreeSet yields them ascending, a
\* BinaryHeap yields its array, each element at most its parent.
ArrValues(c, S) ==
    {s \in SeqsUpTo(S) :
        CASE c = "HashSet"    -> \A i, j \in 1..Len(s) : i # j => s[i] # s[j]
          [] c = "BTreeSet"   -> \A i \in 1..(Len(s) - 1) : s[i] < s[i + 1]
          [] c = "BinaryHeap" -> \A i \in 2..Len(s) : s[i \div 2] >= s[i]
          [] OTHER -> TRUE}

\* What iterating a map c with values of S can yield: no key twice, and for a
\* BTreeMap the keys ascending.
MapValues(c, S) ==
    {s \in SeqsUpTo(MapKeys \X S) :
        IF c = "BTreeMap"
        THEN \A i \in 1..(Len(s) - 1) : TextLess(s[i][1], s[i + 1][1])
        ELSE \A i, j \in 1..Len(s) : i # j => s[i][1] # s[j][1]}

\* The values of type ty.  An f32 is a value whose shortest decimal text is the
\* same as an f32 and as an f64 (1.5).
RECURSIVE ValuesOf(_)
ValuesOf(ty) ==
    LET t == Head(ty)
    IN  CASE t \in UnsignedTypes \cup SignedTypes \cup {"u128", "i128"} -> IntVals(t)
          [] t = "f32"  -> {[nan |-> FALSE, inf |-> FALSE, neg |-> FALSE, int |-> 1, frac |-> <<53>>]}
          [] t = "f64"  -> F64Vals
          [] t = "bool" -> BOOLEAN
          [] t = "unit" -> {<<>>}
          [] t \in StringTypes -> {<<97, 98>>, <<97, SPACE, 98>>}
          [] t = "Arguments" -> FmtVals
          [] t = "char" -> {97, DQUOTE, 8364}
          [] t \in ArrTypes -> ArrValues(t, ValuesOf(Tail(ty)))
          [] t \in MapTypes -> MapValues(t, ValuesOf(Tail(ty)))

\* Every type with an impl of Visitable on its own, every container of u8, and
\* containers of other elements and of containers.
VisitTypes ==
    {<<t>> : t \in UnsignedTypes \cup SignedTypes \cup FloatTypes \cup StringTypes
                   \cup DisplayTypes \cup {"bool", "unit", "Arguments"}}
    \cup {<<c, "u8">> : c \in ArrTypes \cup MapTypes}
    \cup {<<"Vec", "unit">>, <<"slice", "str">>, <<"VecDeque", "char">>,
          <<"BTreeMap", "i8">>, <<"HashMap", "String">>,
          <<"Vec", "Vec", "bool">>, <<"BTreeMap", "Vec", "unit">>,
          <<"LinkedList", "BTreeMap", "unit">>, <<"HashMap", "BTreeMap", "unit">>}

----------------------------------------------------------------------------
\* The formatting call: Display::fmt of KvSingleLine and of KvToJson

\* History kept with every event: the event, and where each Formatter stood
\* before it.
Issue(ev) ==
    /\ events' = Append(events, ev)
    /\ mark' = [kvdisp |-> [log |-> Len(kvdisp.fmt.log), calls |-> kvdisp.fmt.calls],
                kvjson |-> [log |-> Len(kvjson.fmt.log), calls |-> kvjson.fmt.calls]]

\* The callback may issue one more event.
Scanning(limit) == pc = "scan" /\ Len(events) < limit

Top == stack[Len(stack)]
Pop == SubSeq(stack, 1, Len(stack) - 1)

\* A Close of container kind c with key `key` against the open containers.
CloseHistory(c, key) ==
    /\ stack' = IF stack = <<>> THEN stack ELSE Pop
    /\ nested' = (nested /\ stack # <<>> /\ Top = [kind |-> c, key |-> key])

KvU64(limit, key, val) ==
    /\ Scanning(limit)
    /\ kvdisp' = kvdisp_kv_u64(kvdisp, key, val)
    /\ kvjson' = kvjson_kv_u64(kvjson, key, val)
    /\ Issue([kind |-> "u64", key |-> key, val |-> val])
    /\ UNCHANGED <<args, kvscan, pc, callerPrefix, suffix, sink, result, stack, nested>>

KvI64(limit, key, val) ==
    /\ Scanning(limit)
    /\ kvdisp' = kvdisp_kv_i64(kvdisp, key, val)
    /\ kvjson' = kvjson_kv_i64(kvjson, key, val)
    /\ Issue([kind |-> "i64", key |-> key, val |-> val])
    /\ UNCHANGED <<args, kvscan, pc, callerPrefix, suffix, sink, result, stack, nested>>

KvF64(limit, key, val) ==
    /\ Scanning(limit)
    /\ kvdisp' = kvdisp_kv_f64(kvdisp, key, val)
    /\ kvjson' = kvjson_kv_f64(kvjson, key, val)
    /\ Issue([kind |-> "f64", key |-> key, val |-> val])
    /\ UNCHANGED <<args, kvscan, pc, callerPrefix, suffix, sink, result, stack, nested>>

KvBool(limit, key, val) ==
    /\ Scanning(limit)
    /\ kvdisp' = kvdisp_kv_bool(kvdisp, key, val)
    /\ kvjson' = kvjson_kv_bool(kvjson, key, val)
    /\ Issue([kind |-> "bool", key |-> key, val |-> val])
    /\ UNCHANGED <<args, kvscan, pc, callerPrefix, suffix, sink, result, stack, nested>>

KvNull(limit, key) ==
    /\ Scanning(limit)
    /\ kvdisp' = kvdisp_kv_null(kvdisp, key)
    /\ kvjson' = kvjson_kv_null(kvjson, key)
    /\ Issue([kind |-> "null", key |-> key])
    /\ UNCHANGED <<args, kvscan, pc, callerPrefix, suffix, sink, result, stack, nested>>

KvStr(limit, key, val) ==
    /\ Scanning(limit)
    /\ kvdisp' = kvdisp_kv_str(kvdisp, key, val)
    /\ kvjson' = kvjson_kv_str(kvjson, key, val)
    /\ Issue([kind |-> "str", key |-> key, val |-> val])
    /\ UNCHANGED <<args, kvscan, pc, callerPrefix, suffix, sink, result, stack, nested>>

KvFmt(limit, key, val) ==
    /\ Scanning(limit)
    /\ kvdisp' = kvdisp_kv_fmt(kvdisp, key, val)
    /\ kvjson' = kvjson_kv_fmt(kvjson, key, val)
    /\ Issue([kind |-> "fmt", key |-> key, val |-> val])
    /\ UNCHANGED <<args, kvscan, pc, callerPrefix, suffix, sink, result, stack, nested>>

KvMap(limit, key) ==
    /\ Scanning(limit)
    /\ kvdisp' = kvdisp_kv_map(kvdisp, key)
    /\ kvjson' = kvjson_kv_map(kvjson, key)
    /\ Issue([kind |-> "map", key |-> key])
    /\ stack' = Append(stack, [kind |-> "map", key |-> key])
    /\ UNCHANGED <<args, kvscan, pc, callerPrefix, suffix, sink, result, nested>>

KvMapEnd(limit, key) ==
    /\ Scanning(limit)
    /\ kvdisp' = kvdisp_kv_mapend(kvdisp, key)
    /\ kvjson' = kvjson_kv_mapend(kvjson, key)
    /\ Issue([kind |-> "mapend", key |-> key])
    /\ CloseHistory("map", key)
    /\ UNCHANGED <<args, kvscan, pc, callerPrefix, suffix, sink, result>>

KvArr(limit, key) ==
    /\ Scanning(limit)
    /\ kvdisp' = kvdisp_kv_arr(kvdisp, key)
    /\ kvjson' = kvjson_kv_arr(kvjson, key)
    /\ Issue([kind |-> "arr", key |-> key])
    /\ stack' = Append(stack, [kind |-> "arr", key |-> key])
    /\ UNCHANGED <<args, kvscan, pc, callerPrefix, suffix, sink, result, nested>>

KvArrEnd(limit, key) ==
    /\ Scanning(limit)
    /\ kvdisp' = kvdisp_kv_arrend(kvdisp, key)
    /\ kvjson' = kvjson_kv_arrend(kvjson, key)
    /\ Issue([kind |-> "arrend", key |-> key])
    /\ CloseHistory("arr", key)
    /\ UNCHANGED <<args, kvscan, pc, callerPrefix, suffix, sink, result>>

\* The callback returns and fmt finishes: lines 45-51 of kvdisp.rs, 49-55 of
\* kvjson.rs.
Finish ==
    /\ pc = "scan"
    /\ pc' = "done"
    /\ kvdisp' = kvdisp_fmt(kvdisp, suffix).v
    /\ kvjson' = kvjson_fmt(kvjson, suffix).v
    /\ result' = [kvdisp |-> kvdisp_fmt(kvdisp, suffix).res,
                  kvjson |-> kvjson_fmt(kvjson, suffix).res]
    /\ UNCHANGED <<args, kvscan, callerPrefix, suffix, sink, events, stack, nested, mark>>

\* KvSingleLine::new / KvToJson::new with prefix p and suffix s, and the
\* first line of fmt: Visitor::new(f, self.prefix).
Start(p, s) ==
    /\ pc = "scan"
    /\ callerPrefix = p
    /\ suffix = s
    /\ kvdisp = kvdisp_new(p)
    /\ kvjson = kvjson_new(p)
    /\ result = [kvdisp |-> "none", kvjson |-> "none"]
    /\ events = <<>>
    /\ stack = <<>>
    /\ nested = TRUE
    /\ mark = [kvdisp |-> [log |-> 0, calls |-> 0], kvjson |-> [log |-> 0, calls |-> 0]]

ReliableSink == [mode |-> "never", at |-> 0]

\* The callback calls the visitor's methods itself, as test::kvscan does.
DirectCalls == args = <<>> /\ kvscan = <<>>

\* The history after the events evs, from the i-th on, given the history h =
\* [stack, nested] before them.
RECURSIVE HistoryAfter(_, _, _)
HistoryAfter(h, evs, i) ==
    IF i > Len(evs) THEN h
    ELSE LET e == evs[i]
             n == Len(h.stack)
             opened == IF e.kind = "mapend" THEN "map" ELSE "arr"
         IN  HistoryAfter(
                 IF e.kind \in {"map", "arr"}
                 THEN [h EXCEPT !.stack = Append(@, [kind |-> e.kind, key |-> e.key])]
                 ELSE IF e.kind \in {"mapend", "arrend"}
                 THEN [stack  |-> IF n = 0 THEN <<>> ELSE SubSeq(h.stack, 1, n - 1),
                       nested |-> /\ h.nested
                                  /\ n > 0
                                  /\ h.stack[n] = [kind |-> opened, key |-> e.key]]
                 ELSE h,
                 evs, i + 1)

\* The callback is a closure of visit calls (as the one log! builds) and runs
\* from its first call to its last.
RunClosure ==
    /\ pc = "scan"
    /\ events = <<>>
    /\ kvscan # <<>>
    /\ LET evs == closure_events(kvscan, 1)
           n == Len(evs)
           d == kvdisp_kvscan(kvdisp, evs, 1)
           j == kvjson_kvscan(kvjson, evs, 1)
           dm == kvdisp_kvscan(kvdisp, SubSeq(evs, 1, n - 1), 1)
           jm == kvjson_kvscan(kvjson, SubSeq(evs, 1, n - 1), 1)
           h == HistoryAfter([stack |-> stack, nested |-> nested], evs, 1)
       IN  /\ kvdisp' = d
           /\ kvjson' = j
           /\ events' = evs
           /\ mark' = [kvdisp |-> [log |-> Len(dm.fmt.log), calls |-> dm.fmt.calls],
                       kvjson |-> [log |-> Len(jm.fmt.log), calls |-> jm.fmt.calls]]
           /\ stack' = h.stack
           /\ nested' = h.nested
    /\ UNCHANGED <<args, kvscan, pc, callerPrefix, suffix, sink, result>>

\* The closure has returned and fmt finishes.
FinishClosure == (kvscan = <<>> \/ events # <<>>) /\ Finish

\* Spec: a reliable sink, up to MaxItems events over the wide sets.
Init ==
    /\ sink = ReliableSink
    /\ DirectCalls
    /\ \E fr \in Framings : Start(fr[1], fr[2])

Next ==
    \/ \E key \in Keys, val \in U64Vals : KvU64(MaxItems, key, val)
    \/ \E key \in Keys, val \in I64Vals : KvI64(MaxItems, key, val)
    \/ \E key \in Keys, val \in F64Vals : KvF64(MaxItems, key, val)
    \/ \E key \in Keys, val \in BOOLEAN : KvBool(MaxItems, key, val)
    \/ \E key \in Keys : KvNull(MaxItems, key)
    \/ \E key \in Keys, val \in StrVals : KvStr(MaxItems, key, val)
    \/ \E key \in Keys, val \in FmtVals : KvFmt(MaxItems, key, val)
    \/ \E key \in Keys : KvMap(MaxItems, key)
    \/ \E key \in Keys : KvMapEnd(MaxItems, key)
    \/ \E key \in Keys : KvArr(MaxItems, key)
    \/ \E key \in Keys : KvArrEnd(MaxItems, key)
    \/ Finish

Spec == Init /\ [][Next]_vars

\* SpecNest: a reliable sink, up to MaxEvents events: scalars with and without
\* a key, a null with no key, and containers opened and closed in any order.
InitNest ==
    /\ sink = ReliableSink
    /\ DirectCalls
    /\ \E fr \in NestFramings : Start(fr[1], fr[2])

NextNest ==
    \/ \E key \in NestKeys : KvU64(MaxEvents, key, 0)
    \/ KvNull(MaxEvents, None)
    \/ \E key \in NestKeys : KvMap(MaxEvents, key)
    \/ \E key \in NestKeys : KvMapEnd(MaxEvents, key)
    \/ \E key \in NestKeys : KvArr(MaxEvents, key)
    \/ \E key \in NestKeys : KvArrEnd(MaxEvents, key)
    \/ Finish

SpecNest == InitNest /\ [][NextNest]_vars

\* SpecEsc: a reliable sink and one event, whose key or string value is any
\* text of up to MaxLen characters of EscChars.
InitEsc ==
    /\ sink = ReliableSink
    /\ DirectCalls
    /\ Start(<<SPACE>>, <<>>)

\* The text is drawn after the guard: one event per render.
EscStr == Scanning(1) /\ \E s \in EscStrings : KvStr(1, None, s)
EscKey == Scanning(1) /\ \E s \in EscStrings : KvNull(1, Some(s))
EscFmt == Scanning(1) /\ \E s \in EscStrings : KvFmt(1, None, [text |-> s, err |-> FALSE])

NextEsc == EscStr \/ EscKey \/ EscFmt \/ Finish

SpecEsc == InitEsc /\ [][NextEsc]_vars

\* SpecFail: a sink that fails, up to MaxFailEvents events.
InitFail ==
    /\ sink \in FailingSinks
    /\ DirectCalls
    /\ Start(<<SPACE>>, <<RBRACE>>)

NextFail ==
    \/ \E key \in NestKeys : KvU64(MaxFailEvents, key, 0)
    \/ KvI64(MaxFailEvents, None, 0 - 1234)
    \/ \E val \in F64Vals : KvF64(MaxFailEvents, None, val)
    \/ KvBool(MaxFailEvents, None, TRUE)
    \/ \E key \in NestKeys : KvNull(MaxFailEvents, key)
    \/ \E key \in NestKeys : KvStr(MaxFailEvents, key, <<97, SPACE, 98>>)
    \/ \E val \in FailFmtVals : KvFmt(MaxFailEvents, None, val)
    \/ \E key \in NestKeys : KvMap(MaxFailEvents, key)
    \/ KvMapEnd(MaxFailEvents, None)
    \/ \E key \in NestKeys : KvArr(MaxFailEvents, key)
    \/ KvArrEnd(MaxFailEvents, None)
    \/ Finish

SpecFail == InitFail /\ [][NextFail]_vars

\* SpecVisit: a reliable sink and a callback that visits one value,
\* |output| val.visit(key, output), of any type of VisitTypes.
InitVisit ==
    /\ sink = ReliableSink
    /\ args = <<>>
    /\ \E ty \in VisitTypes : \E val \in ValuesOf(ty) : \E key \in NestKeys :
           kvscan = <<[ty |-> ty, val |-> val, key |-> key]>>
    /\ Start(<<SPACE>>, <<>>)

NextVisit == RunClosure \/ FinishClosure

SpecVisit == InitVisit /\ [][NextVisit]_vars

\* SpecLog: a reliable sink and the callback that a logging macro call with up
\* to MaxArgs key-value arguments of LogArgs builds; a call that does not
\* compile is in no program.
LogArgs ==
    {[sigil |-> "", form |-> "path", path |-> <<"s", "k">>, lit |-> <<>>, expr |-> "s.k"],
     [sigil |-> "", form |-> "path", path |-> <<"j">>, lit |-> <<>>, expr |-> "j"],
     [sigil |-> "", form |-> "ident", path |-> <<"s">>, lit |-> <<>>, expr |-> "-7i16"],
     [sigil |-> "", form |-> "literal", path |-> <<>>, lit |-> <<97, SPACE, 98>>, expr |-> "()"],
     [sigil |-> "%", form |-> "path", path |-> <<"s", "j", "k">>, lit |-> <<>>, expr |-> "s.j.k"],
     [sigil |-> "%", form |-> "ident", path |-> <<"j">>, lit |-> <<>>, expr |-> "s.k"],
     [sigil |-> "%", form |-> "literal", path |-> <<>>, lit |-> <<>>, expr |-> "j"],
     [sigil |-> "?", form |-> "path", path |-> <<"s", "j", "k">>, lit |-> <<>>, expr |-> "s.j.k"],
     [sigil |-> "?", form |-> "ident", path |-> <<"k">>, lit |-> <<>>, expr |-> "()"],
     [sigil |-> "?", form |-> "literal", path |-> <<>>, lit |-> <<107>>, expr |-> "-7i16"]}

InitLog ==
    /\ sink = ReliableSink
    /\ \E n \in 0..MaxArgs : \E a \in [1..n -> LogArgs] :
           /\ log_macro(<<>>, a).ok
           /\ args = a
           /\ kvscan = log_macro(<<>>, a).closure
    /\ Start(<<SPACE>>, <<>>)

NextLog == RunClosure \/ FinishClosure

SpecLog == InitLog /\ [][NextLog]_vars

\* SpecFmt: a reliable sink and up to MaxFmtEvents kv_fmt and kv_str events
\* whose texts differ in length: "abc d", "a\"" and the empty text.
ScratchTexts == {<<97, 98, 99, SPACE, 100>>, <<97, DQUOTE>>, <<>>}

InitFmt ==
    /\ sink = ReliableSink
    /\ DirectCalls
    /\ \E fr \in NestFramings : Start(fr[1], fr[2])

NextFmt ==
    \/ \E key \in NestKeys, t \in ScratchTexts :
           KvFmt(MaxFmtEvents, key, [text |-> t, err |-> FALSE])
    \/ \E key \in NestKeys, t \in ScratchTexts : KvStr(MaxFmtEvents, key, t)
    \/ Finish

SpecFmt == InitFmt /\ [][NextFmt]_vars

\* SpecJson: a reliable sink, the empty prefix and suffix, and a callback that
\* visits values the way visit.rs does: an item of a map (and of the top
\* level) with a key, an item of an array with none, a Close for the innermost
\* open container with the key of its Open.
InitJson ==
    /\ sink = ReliableSink
    /\ DirectCalls
    /\ Start(<<>>, <<>>)

\* Where the callback stands, an item has a key or has none.
Keyed == stack = <<>> \/ Top.kind = "map"
\* The keys of a number, a boolean or a null; the keys of a string or a container.
PlainKeys == IF Keyed THEN {Some(<<107>>)} ELSE {None}
ItemKeys == IF Keyed THEN {Some(k) : k \in JsonKeys} ELSE {None}

NextJson ==
    \/ \E key \in PlainKeys : KvU64(MaxJsonEvents, key, 4321)
    \/ \E key \in PlainKeys : KvI64(MaxJsonEvents, key, 0 - 1234)
    \/ \E key \in PlainKeys, val \in BOOLEAN : KvBool(MaxJsonEvents, key, val)
    \/ \E key \in PlainKeys : KvNull(MaxJsonEvents, key)
    \/ \E key \in ItemKeys, val \in JsonStrVals : KvStr(MaxJsonEvents, key, val)
    \/ \E key \in ItemKeys : KvMap(MaxJsonEvents, key)
    \/ stack # <<>> /\ Top.kind = "map" /\ KvMapEnd(MaxJsonEvents, Top.key)
    \/ \E key \in ItemKeys : KvArr(MaxJsonEvents, key)
    \/ stack # <<>> /\ Top.kind = "arr" /\ KvArrEnd(MaxJsonEvents, Top.key)
    \/ Finish

SpecJson == InitJson /\ [][NextJson]_vars


----------------------------------------------------------------------------
\* Reading the two renderers

Renderers == {"kvdisp", "kvjson"}
Visitor(r) == IF r = "kvdisp" THEN kvdisp ELSE kvjson
Log(r) == Visitor(r).fmt.log
\* The separator token: a single space, a single ','.
SepToken(r) == IF r = "kvdisp" THEN <<SPACE>> ELSE <<COMMA>>

\* Some write call on the renderer's Formatter returned Err.
WriteFailed(r) == Visitor(r).fmt.calls > Len(Log(r))

\* The writes of the last event.
LastEvent == events[Len(events)]
LastWrites(r) == SubSeq(Log(r), mark[r].log + 1, Len(Log(r)))

----------------------------------------------------------------------------
\* C1. Emptiness: when the callback issues no event, neither renderer makes any
\* write call (so neither the prefix nor the suffix reaches the sink) and both
\* formatting calls return Ok, whatever the prefix and the suffix are.
C1_Emptiness ==
    (pc = "done" /\ events = <<>>) =>
        \A r \in Renderers :
            /\ Visitor(r).fmt.calls = 0
            /\ Bytes(Visitor(r)) = <<>>
            /\ result[r] = "ok"

C1_Witness ==
    /\ pc = "done"
    /\ events = <<>>
    /\ callerPrefix = <<LBRACE>>
    /\ suffix = <<RBRACE>>
    /\ result = [kvdisp |-> "ok", kvjson |-> "ok"]

\* C2. Framing order: after a well-nested stream of at least one event on a
\* reliable sink, the first write is the caller's prefix, the last write is the
\* caller's suffix, no other write is the suffix write, every later
\* pending-separator write is empty or the separator token (never the caller's
\* prefix again), and the call returns Ok.
C2_FramingOrder ==
    (pc = "done" /\ nested /\ events # <<>>) =>
        \A r \in Renderers :
            LET log == Log(r)
                n == Len(log)
            IN  /\ n >= 2
                /\ log[1] = [site |-> "pending", text |-> callerPrefix]
                /\ log[n] = [site |-> "suffix", text |-> suffix]
                /\ \A i \in 2..(n - 1) :
                       /\ log[i].site # "suffix"
                       /\ log[i].site = "pending" => log[i].text \in {<<>>, SepToken(r)}
                /\ Bytes(Visitor(r)) =
                       callerPrefix \o Flatten(SubSeq(log, 2, n - 1)) \o suffix
                /\ result[r] = "ok"

\* "k{" 0 "k=0" "}" framed by "," and "}".
C2_Witness ==
    /\ pc = "done"
    /\ nested
    /\ stack = <<>>
    /\ Len(events) = 3
    /\ events[1] = [kind |-> "map", key |-> Some(<<107>>)]
    /\ events[2].kind = "u64"
    /\ events[2].key = Some(<<107>>)
    /\ callerPrefix = <<COMMA>>
    /\ Bytes(kvdisp) = <<COMMA, 107, LBRACE, 107, EQUALS, 48, RBRACE, RBRACE>>
    /\ Bytes(kvjson) = <<COMMA, DQUOTE, 107, DQUOTE, COLON, LBRACE,
                         DQUOTE, 107, DQUOTE, COLON, 48, RBRACE, RBRACE>>

\* C3. Sink failure is reported: if any write call of a render returned Err
\* (the prefix, a key, a value, a bracket or the suffix), the formatting call
\* returns Err, however many later writes succeeded.
C3_SinkFailureReported ==
    pc = "done" =>
        \A r \in Renderers : WriteFailed(r) => result[r] = "err"

\* The sink rejects one write call and accepts at least two after it.
C3_Witness ==
    /\ pc = "done"
    /\ sink.mode = "once"
    /\ kvdisp.fmt.calls >= sink.at + 2
    /\ kvjson.fmt.calls >= sink.at + 2
    /\ result = [kvdisp |-> "err", kvjson |-> "err"]

----------------------------------------------------------------------------
\* Separators in the log of a renderer

\* A separator token: a pending-separator write, other than the caller's
\* prefix, whose text is the separator token.
IsSeparator(r, i) ==
    /\ i > 1
    /\ Log(r)[i].site = "pending"
    /\ Log(r)[i].text = SepToken(r)

\* The nearest writes of non-empty text before and after write i (0: none).
PrevText(r, i) ==
    LET js == {j \in 1..(i - 1) : Log(r)[j].text # <<>>}
    IN  IF js = {} THEN 0 ELSE CHOOSE j \in js : \A k \in js : k <= j
NextText(r, i) ==
    LET js == {j \in (i + 1)..Len(Log(r)) : Log(r)[j].text # <<>>}
    IN  IF js = {} THEN 0 ELSE CHOOSE j \in js : \A k \in js : j <= k

\* Items and separator tokens counted per nesting level along the log: `levels`
\* holds one [items, seps] per open level, the innermost last.  TRUE when at
\* every level, whenever it is left and at the end of the log, N items came with
\* N - 1 separator tokens (none for N = 0).
LevelOk(l) == l.seps = (IF l.items = 0 THEN 0 ELSE l.items - 1)
RECURSIVE LevelCounts(_, _, _)
LevelCounts(r, i, levels) ==
    LET n == Len(levels)
        w == Log(r)[i]
    IN  IF i > Len(Log(r)) THEN \A k \in 1..n : LevelOk(levels[k])
        ELSE IF w.site = "pending"
        THEN LevelCounts(r, i + 1,
                 [levels EXCEPT ![n] = [items |-> @.items + 1,
                                        seps  |-> @.seps + (IF IsSeparator(r, i) THEN 1 ELSE 0)]])
        ELSE IF w.site = "open"
        THEN LevelCounts(r, i + 1, Append(levels, [items |-> 0, seps |-> 0]))
        ELSE IF w.site = "close"
        THEN /\ n > 1
             /\ LevelOk(levels[n])
             /\ LevelCounts(r, i + 1, SubSeq(levels, 1, n - 1))
        ELSE LevelCounts(r, i + 1, levels)

SeparatorCounts(r) == LevelCounts(r, 1, <<[items |-> 0, seps |-> 0]>>)

\* No separator token has an opening bracket as the text directly before it or
\* a closing bracket as the text directly after it.
NoSeparatorAtBracket(r) ==
    \A i \in 1..Len(Log(r)) :
        IsSeparator(r, i) =>
            /\ PrevText(r, i) # 0 => Log(r)[PrevText(r, i)].site # "open"
            /\ NextText(r, i) # 0 => Log(r)[NextText(r, i)].site # "close"

\* C4 as claimed. Separator correctness: in a well-nested stream, N siblings of
\* one level come with exactly N - 1 separator tokens, and no separator token
\* is written directly after an opening bracket or directly before a closing
\* bracket.
C4_SeparatorCorrectness ==
    nested =>
        \A r \in Renderers : SeparatorCounts(r) /\ NoSeparatorAtBracket(r)

\* C4 as amended. N siblings of one level come with exactly N - 1 separator
\* tokens, none before the first sibling of a level; the JSON renderer never
\* writes a separator token directly after an opening bracket or directly
\* before a closing bracket; the single-line renderer does so only next to a
\* sibling that wrote no text: between the bracket and the separator token, in
\* the log, lies the pending-separator write of that sibling.
C4_SeparatorCorrectnessAmended ==
    nested =>
        /\ \A r \in Renderers :
               /\ SeparatorCounts(r)
               /\ \A i \in 2..Len(Log(r)) :
                      (Log(r)[i].site = "pending" /\ Log(r)[i - 1].site = "open")
                          => Log(r)[i].text = <<>>
        /\ NoSeparatorAtBracket("kvjson")
        /\ \A i \in 1..Len(Log("kvdisp")) :
               IsSeparator("kvdisp", i) =>
                   LET j == PrevText("kvdisp", i)
                   IN  (j # 0 /\ Log("kvdisp")[j].site = "open") =>
                           /\ j + 1 < i
                           /\ Log("kvdisp")[j + 1] = [site |-> "pending", text |-> <<>>]

\* "k[" then two siblings, 0 and k=0, then "]": one separator token, between them.
C4_Witness ==
    /\ nested
    /\ pc = "done"
    /\ stack = <<>>
    /\ callerPrefix = <<SPACE>>
    /\ Bytes(kvdisp) = <<SPACE, 107, LBRACKET, 48, SPACE, 107, EQUALS, 48, RBRACKET>>
    /\ Bytes(kvjson) = <<SPACE, DQUOTE, 107, DQUOTE, COLON, LBRACKET, 48, COMMA,
                         DQUOTE, 107, DQUOTE, COLON, 48, RBRACKET>>

----------------------------------------------------------------------------
\* The escaping rules as the claims word them

\* The text of the last event's writes made for one place of the item.
RECURSIVE SiteText(_, _)
SiteText(ws, site) ==
    IF ws = <<>> THEN <<>>
    ELSE (IF ws[1].site = site THEN ws[1].text ELSE <<>>) \o SiteText(Tail(ws), site)

\* The text of the last event's writes after its pending-separator write.
ItemText(r) == Flatten(Tail(LastWrites(r)))

HexDigits == <<48, 49, 50, 51, 52, 53, 54, 55, 56, 57, 65, 66, 67, 68, 69, 70>>
\* Two uppercase hexadecimal digits of a byte value.
TwoHex(b) == <<HexDigits[(b \div 16) + 1], HexDigits[(b % 16) + 1]>>

\* Any char <= space, '"', '=', '\', '[', ']', '{', '}'.
ReservedChars == (0..32) \cup {34, 61, 92, 91, 93, 123, 125}
\* The characters below space, '"' and '\'.
QuotedEscapes == (0..31) \cup {34, 92}

RECURSIVE EscapeEach(_, _, _)
\* s with each character of `set` replaced by lead followed by its two hex
\* digits, every other character unchanged.
EscapeEach(s, set, lead) ==
    IF s = <<>> THEN <<>>
    ELSE (IF s[1] \in set THEN lead \o TwoHex(s[1]) ELSE <<s[1]>>)
         \o EscapeEach(Tail(s), set, lead)

RECURSIVE JsonEscape(_)
\* s with each character below U+0020 replaced by \u00 and its two hex digits,
\* '"' and '\' preceded by one backslash, every other character unchanged.
JsonEscape(s) ==
    IF s = <<>> THEN <<>>
    ELSE (IF s[1] < 32 THEN <<92, 117, 48, 48>> \o TwoHex(s[1])
          ELSE IF s[1] \in {34, 92} THEN <<92, s[1]>>
          ELSE <<s[1]>>)
         \o JsonEscape(Tail(s))

HasAny(s, set) == \E i \in 1..Len(s) : s[i] \in set

\* C5. Single-line string value quoting: a string value with no reserved
\* character is written verbatim, with no quotes; any other is written between
\* double quotes with exactly the characters below space, '"' and '\' replaced
\* by backslash and two uppercase hex digits, every other character unchanged.
C5_SingleLineValueQuoting ==
    (pc = "scan" /\ events # <<>> /\ LastEvent.kind = "str") =>
        SiteText(LastWrites("kvdisp"), "val") =
            IF HasAny(LastEvent.val, ReservedChars)
            THEN <<34>> \o EscapeEach(LastEvent.val, QuotedEscapes, <<92>>) \o <<34>>
            ELSE LastEvent.val

\* The value tab, '=', euro sign is written as "\09=(euro)" in quotes.
C5_Witness ==
    /\ pc = "scan"
    /\ events # <<>>
    /\ LastEvent.kind = "str"
    /\ LastEvent.val = <<9, 61, 8364>>
    /\ ItemText("kvdisp") = <<34, 92, 48, 57, 61, 8364, 34>>

\* C6. Single-line key escaping: a present key is never quoted; each reserved
\* character of it is replaced by backslash and two uppercase hex digits, every
\* other character is unchanged; the empty key is written as \20.
C6_SingleLineKeyEscaping ==
    (pc = "scan" /\ events # <<>> /\ LastEvent.kind = "null" /\ LastEvent.key # None) =>
        /\ SiteText(LastWrites("kvdisp"), "key") =
               IF LastEvent.key[1] = <<>> THEN <<92, 50, 48>>
               ELSE EscapeEach(LastEvent.key[1], ReservedChars, <<92>>)
        /\ ItemText("kvdisp") = SiteText(LastWrites("kvdisp"), "key")

\* The key '"', space, e-acute is written as \22\20(e-acute), with no quotes.
C6_Witness ==
    /\ pc = "scan"
    /\ events # <<>>
    /\ LastEvent.kind = "null"
    /\ LastEvent.key = Some(<<34, 32, 233>>)
    /\ ItemText("kvdisp") = <<92, 50, 50, 92, 50, 48, 233>>

\* The text push_str_literal's per-character loop writes for s.
JsonLoopText(s) ==
    Flatten(kvjson_literal_loop([f |-> NewFormatter, ok |-> TRUE], "val", s, 1).f.log)

\* s as the claim has the JSON renderer write it.
JsonQuoted(s) ==
    <<34>> \o JsonEscape(s) \o <<34>>

\* C7. JSON string escaping: every key and every string value is written
\* between double quotes, each character below U+0020 as \u00 and two uppercase
\* hex digits, '"' and '\' after one backslash, every other character
\* unchanged; a text with nothing to escape is written alike by the fast path
\* and by the per-character path.
C7_JsonStringEscaping ==
    (pc = "scan" /\ events # <<>>) =>
        /\ LastEvent.kind = "str" =>
               /\ SiteText(LastWrites("kvjson"), "val") = JsonQuoted(LastEvent.val)
               /\ ~HasAny(LastEvent.val, QuotedEscapes) =>
                      JsonLoopText(LastEvent.val) = LastEvent.val
        /\ (LastEvent.kind = "null" /\ LastEvent.key # None) =>
               SiteText(LastWrites("kvjson"), "key") = JsonQuoted(LastEvent.key[1])

\* The value US, '\', euro sign is written as "\u001F\\(euro)".
C7_Witness ==
    /\ pc = "scan"
    /\ events # <<>>
    /\ LastEvent.kind = "str"
    /\ LastEvent.val = <<31, 92, 8364>>
    /\ ItemText("kvjson") = <<34, 92, 117, 48, 48, 49, 70, 92, 92, 8364, 34>>

----------------------------------------------------------------------------
\* The syntax of one item

ScalarKinds == {"u64", "i64", "f64", "bool", "str", "fmt"}
OpenKinds == {"map", "arr"}
CloseKinds == {"mapend", "arrend"}

RECURSIVE DigitsValue(_)
\* The number a text of decimal digits denotes.
DigitsValue(t) ==
    IF t = <<>> THEN 0
    ELSE DigitsValue(SubSeq(t, 1, Len(t) - 1)) * 10 + (t[Len(t)] - 48)

\* t is the decimal text of the natural n: digits only, no leading zero.
IsDigitsOf(t, n) ==
    /\ t # <<>>
    /\ \A i \in 1..Len(t) : t[i] \in 48..57
    /\ Len(t) > 1 => t[1] # 48
    /\ DigitsValue(t) = n

\* t is the decimal text of the integer n.
IsDecimalOf(t, n) ==
    IF n < 0 THEN t # <<>> /\ t[1] = 45 /\ IsDigitsOf(Tail(t), 0 - n)
    ELSE IsDigitsOf(t, n)

\* t is the text of the scalar of event e, in the single-line rendering (sl) or
\* in JSON.  The text of an f64 is not part of the claims: any written text.
IsValueText(e, t, sl) ==
    CASE e.kind \in {"u64", "i64"} -> IsDecimalOf(t, e.val)
      [] e.kind = "bool" -> t = IF e.val THEN <<116, 114, 117, 101>>
                                ELSE <<102, 97, 108, 115, 101>>
      [] e.kind = "f64"  -> t # <<>>
      [] e.kind = "str"  ->
             IF ~sl THEN t = <<34>> \o JsonEscape(e.val) \o <<34>>
             ELSE IF HasAny(e.val, ReservedChars)
             THEN t = <<34>> \o EscapeEach(e.val, QuotedEscapes, <<92>>) \o <<34>>
             ELSE t = e.val
      [] e.kind = "fmt"  ->
             IF ~sl THEN t = <<34>> \o JsonEscape(e.val.text) \o <<34>>
             ELSE IF HasAny(e.val.text, ReservedChars)
             THEN t = <<34>> \o EscapeEach(e.val.text, QuotedEscapes, <<92>>) \o <<34>>
             ELSE t = e.val.text

\* The single-line text of a present key.
SingleLineKey(k) ==
    IF k = <<>> THEN <<92, 50, 48>> ELSE EscapeEach(k, ReservedChars, <<92>>)

\* The opening and the closing bracket of a container event.
BracketOf(kind) ==
    CASE kind = "map" -> <<123>>
      [] kind = "arr" -> <<91>>
      [] kind = "mapend" -> <<125>>
      [] kind = "arrend" -> <<93>>

\* C8. Single-line item syntax: a keyed scalar is key, '=', value; a keyed null
\* is the key alone; a keyed map or array is the key directly followed by '{'
\* or '['; an item with no key has neither key nor '='.
C8_SingleLineItemSyntax ==
    (pc = "scan" /\ events # <<>>) =>
        LET e == LastEvent
            ws == LastWrites("kvdisp")
            item == ItemText("kvdisp")
            val == SiteText(ws, "val")
            keyed == e.key # None
        IN  /\ e.kind \notin CloseKinds => ws[1].site = "pending"
            /\ e.kind \in ScalarKinds =>
                   /\ IsValueText(e, val, TRUE)
                   /\ item = IF keyed THEN SingleLineKey(e.key[1]) \o <<61>> \o val
                             ELSE val
            /\ e.kind = "null" =>
                   item = IF keyed THEN SingleLineKey(e.key[1]) ELSE <<>>
            /\ e.kind \in OpenKinds =>
                   item = IF keyed THEN SingleLineKey(e.key[1]) \o BracketOf(e.kind)
                             ELSE BracketOf(e.kind)
            /\ ~keyed => SiteText(ws, "key") = <<>> /\ SiteText(ws, "sep") = <<>>

\* "k=4321" then "k": a keyed u64 and a keyed null in one line.
C8_Witness ==
    /\ pc = "scan"
    /\ Len(events) = 2
    /\ events[1].kind = "u64"
    /\ events[2] = [kind |-> "null", key |-> Some(<<107>>)]
    /\ callerPrefix = <<SPACE>>
    /\ Bytes(kvdisp) = <<SPACE, 107, EQUALS, 52, 51, 50, 49, SPACE, 107>>

\* C9. JSON item syntax: a keyed item is the quoted key, ':', the value; the
\* value of a null is the text null; u64, i64 and bool values are their decimal
\* or boolean text, unquoted; a map opens with '{' and closes with '}', an array
\* with '[' and ']'; an item with no key is the value alone, with no ':'.
C9_JsonItemSyntax ==
    (pc = "scan" /\ events # <<>>) =>
        LET e == LastEvent
            ws == LastWrites("kvjson")
            item == ItemText("kvjson")
            val == SiteText(ws, "val")
            keyed == e.key # None
            head == IF keyed THEN <<34>> \o JsonEscape(e.key[1]) \o <<34, 58>> ELSE <<>>
        IN  /\ e.kind \notin CloseKinds => ws[1].site = "pending"
            /\ e.kind \in ScalarKinds =>
                   IsValueText(e, val, FALSE) /\ item = head \o val
            /\ e.kind = "null" => item = head \o <<110, 117, 108, 108>>
            /\ e.kind \in OpenKinds => item = head \o BracketOf(e.kind)
            /\ e.kind \in CloseKinds => Flatten(ws) = BracketOf(e.kind)
            /\ (~keyed /\ e.kind \notin CloseKinds) =>
                   SiteText(ws, "key") = <<>> /\ SiteText(ws, "sep") = <<>>

\* ,"k":null,"":-1234
C9_Witness ==
    /\ pc = "scan"
    /\ Len(events) = 2
    /\ events[1] = [kind |-> "null", key |-> Some(<<107>>)]
    /\ events[2].kind = "i64"
    /\ events[2].key = Some(<<>>)
    /\ callerPrefix = <<COMMA>>
    /\ Bytes(kvjson) = <<COMMA, DQUOTE, 107, DQUOTE, COLON, 110, 117, 108, 108, COMMA,
                         DQUOTE, DQUOTE, COLON, 45, 49, 50, 51, 52>>

----------------------------------------------------------------------------
\* Empty containers

\* The last write at the pending-separator site (0: none).
LastPending(r) ==
    LET is == {i \in 1..Len(Log(r)) : Log(r)[i].site = "pending"}
    IN  IF is = {} THEN 0 ELSE CHOOSE i \in is : \A k \in is : k <= i

\* Event n closes the container that event n - 1 opened.
ClosesAt(n) ==
    /\ n >= 2
    /\ n <= Len(events)
    /\ events[n - 1].kind \in OpenKinds
    /\ events[n].kind = (IF events[n - 1].kind = "map" THEN "mapend" ELSE "arrend")
    /\ events[n].key = events[n - 1].key

\* C10. Nesting correctness: an Open directly followed by its matching Close
\* writes key{} or key[] (single-line) and "key":{} or "key":[] (JSON) with
\* nothing between the brackets, and the next sibling is preceded by exactly
\* one separator token.
C10_EmptyContainer ==
    (pc = "scan" /\ nested) =>
        LET n == Len(events)
        IN  /\ ClosesAt(n) =>
                LET open == events[n - 1]
                    brackets == BracketOf(open.kind) \o BracketOf(events[n].kind)
                IN  /\ LastPending("kvdisp") > 0
                    /\ LastPending("kvjson") > 0
                    /\ Flatten(SubSeq(Log("kvdisp"), LastPending("kvdisp") + 1,
                                      Len(Log("kvdisp")))) =
                           (IF open.key = None THEN <<>> ELSE SingleLineKey(open.key[1]))
                           \o brackets
                    /\ Flatten(SubSeq(Log("kvjson"), LastPending("kvjson") + 1,
                                      Len(Log("kvjson")))) =
                           (IF open.key = None THEN <<>>
                            ELSE <<34>> \o JsonEscape(open.key[1]) \o <<34, 58>>)
                           \o brackets
            /\ (ClosesAt(n - 1) /\ events[n].kind \notin CloseKinds) =>
                \A r \in Renderers :
                    /\ Log(r)[mark[r].log].site = "close"
                    /\ LastWrites(r)[1] = [site |-> "pending", text |-> SepToken(r)]
                    /\ \A i \in 2..Len(LastWrites(r)) : LastWrites(r)[i].site # "pending"

\* k{} k=0 and ,"k":{},"k":0
C10_Witness ==
    /\ pc = "scan"
    /\ nested
    /\ Len(events) = 3
    /\ ClosesAt(2)
    /\ callerPrefix = <<COMMA>>
    /\ Bytes(kvdisp) = <<COMMA, 107, LBRACE, RBRACE, SPACE, 107, EQUALS, 48>>
    /\ Bytes(kvjson) = <<COMMA, DQUOTE, 107, DQUOTE, COLON, LBRACE, RBRACE, COMMA,
                         DQUOTE, 107, DQUOTE, COLON, 48>>

----------------------------------------------------------------------------
\* A JSON decoder (RFC 8259), reading a text into the sequence of items it
\* denotes: one token per scalar, an opening and a closing token per object
\* and array, each with the name it is a member under (None for an array
\* element and for the whole text).  The members of an object are kept in
\* text order.  Numbers are read as integers; a fraction or an exponent is not
\* read.

Tok(kind, key, str, num, bool) ==
    [kind |-> kind, key |-> key, str |-> str, num |-> num, bool |-> bool]

JsonFail == [ok |-> FALSE, next |-> 0, str |-> <<>>, num |-> 0, evs |-> <<>>]

RECURSIVE JsonSkipWs(_, _)
JsonSkipWs(t, i) ==
    IF i <= Len(t) /\ t[i] \in {32, 9, 10, 13} THEN JsonSkipWs(t, i + 1) ELSE i

\* The value of a hexadecimal digit, -1 for any other character.
HexValue(c) ==
    IF c \in 48..57 THEN c - 48
    ELSE IF c \in 65..70 THEN c - 55
    ELSE IF c \in 97..102 THEN c - 87
    ELSE 0 - 1

\* The character a two-character escape denotes, -1 for none.
JsonSimpleEscape(c) ==
    CASE c = 34 -> 34
      [] c = 92 -> 92
      [] c = 47 -> 47
      [] c = 98 -> 8
      [] c = 102 -> 12
      [] c = 110 -> 10
      [] c = 114 -> 13
      [] c = 116 -> 9
      [] OTHER -> 0 - 1

\* A string from the character after its opening quote.
RECURSIVE JsonString(_, _, _)
JsonString(t, i, acc) ==
    IF i > Len(t) \/ t[i] < 32 THEN JsonFail
    ELSE IF t[i] = 34 THEN [JsonFail EXCEPT !.ok = TRUE, !.next = i + 1, !.str = acc]
    ELSE IF t[i] # 92 THEN JsonString(t, i + 1, Append(acc, t[i]))
    ELSE IF i + 1 > Len(t) THEN JsonFail
    ELSE IF JsonSimpleEscape(t[i + 1]) >= 0
    THEN JsonString(t, i + 2, Append(acc, JsonSimpleEscape(t[i + 1])))
    ELSE IF /\ t[i + 1] = 117
            /\ i + 5 <= Len(t)
            /\ \A k \in 2..5 : HexValue(t[i + k]) >= 0
    THEN LET c == HexValue(t[i + 2]) * 4096 + HexValue(t[i + 3]) * 256
                  + HexValue(t[i + 4]) * 16 + HexValue(t[i + 5])
         IN  IF c \in 55296..57343 THEN JsonFail
             ELSE JsonString(t, i + 6, Append(acc, c))
    ELSE JsonFail

RECURSIVE JsonDigitsEnd(_, _)
JsonDigitsEnd(t, i) ==
    IF i <= Len(t) /\ t[i] \in 48..57 THEN JsonDigitsEnd(t, i + 1) ELSE i

\* A number from its first character: '-'? then 0 or digits with no leading 0.
JsonNumber(t, i) ==
    LET neg == t[i] = 45
        s == IF neg THEN i + 1 ELSE i
        e == JsonDigitsEnd(t, s)
        digits == SubSeq(t, s, e - 1)
    IN  IF \/ e = s
           \/ (e - s > 1 /\ t[s] = 48)
           \/ (e <= Len(t) /\ t[e] \in {46, 69, 101})
        THEN JsonFail
        ELSE [JsonFail EXCEPT !.ok = TRUE, !.next = e,
                              !.num = IF neg THEN 0 - DigitsValue(digits)
                                      ELSE DigitsValue(digits)]

\* Whether the text w stands at position i of t.
JsonAt(t, i, w) == i + Len(w) - 1 <= Len(t) /\ SubSeq(t, i, i + Len(w) - 1) = w

JsonDone(next, evs) == [JsonFail EXCEPT !.ok = TRUE, !.next = next, !.evs = evs]

RECURSIVE JsonValue(_, _, _)
RECURSIVE JsonMembers(_, _, _)
RECURSIVE JsonElements(_, _, _)

\* A value from position i0, as the member `key`.
JsonValue(t, i0, key) ==
    LET i == JsonSkipWs(t, i0)
    IN  IF i > Len(t) THEN JsonFail
        ELSE IF t[i] = 34
        THEN LET r == JsonString(t, i + 1, <<>>)
             IN  IF r.ok THEN JsonDone(r.next, <<Tok("str", key, r.str, 0, FALSE)>>)
                 ELSE JsonFail
        ELSE IF t[i] = 123
        THEN LET j == JsonSkipWs(t, i + 1)
                 r == JsonMembers(t, j, <<>>)
             IN  IF j <= Len(t) /\ t[j] = 125
                 THEN JsonDone(j + 1, <<Tok("map", key, <<>>, 0, FALSE),
                                        Tok("mapend", key, <<>>, 0, FALSE)>>)
                 ELSE IF r.ok
                 THEN JsonDone(r.next, <<Tok("map", key, <<>>, 0, FALSE)>> \o r.evs
                                       \o <<Tok("mapend", key, <<>>, 0, FALSE)>>)
                 ELSE JsonFail
        ELSE IF t[i] = 91
        THEN LET j == JsonSkipWs(t, i + 1)
                 r == JsonElements(t, j, <<>>)
             IN  IF j <= Len(t) /\ t[j] = 93
                 THEN JsonDone(j + 1, <<Tok("arr", key, <<>>, 0, FALSE),
                                        Tok("arrend", key, <<>>, 0, FALSE)>>)
                 ELSE IF r.ok
                 THEN JsonDone(r.next, <<Tok("arr", key, <<>>, 0, FALSE)>> \o r.evs
                                       \o <<Tok("arrend", key, <<>>, 0, FALSE)>>)
                 ELSE JsonFail
        ELSE IF JsonAt(t, i, <<116, 114, 117, 101>>)
        THEN JsonDone(i + 4, <<Tok("bool", key, <<>>, 0, TRUE)>>)
        ELSE IF JsonAt(t, i, <<102, 97, 108, 115, 101>>)
        THEN JsonDone(i + 5, <<Tok("bool", key, <<>>, 0, FALSE)>>)
        ELSE IF JsonAt(t, i, <<110, 117, 108, 108>>)
        THEN JsonDone(i + 4, <<Tok("null", key, <<>>, 0, FALSE)>>)
        ELSE LET r == JsonNumber(t, i)
             IN  IF r.ok THEN JsonDone(r.next, <<Tok("num", key, <<>>, r.num, FALSE)>>)
                 ELSE JsonFail

\* The members of an object from position i0, up to and with its '}'.
JsonMembers(t, i0, acc) ==
    LET i == JsonSkipWs(t, i0)
        k == JsonString(t, i + 1, <<>>)
        c == JsonSkipWs(t, k.next)
        v == JsonValue(t, c + 1, Some(k.str))
        d == JsonSkipWs(t, v.next)
    IN  IF i > Len(t) \/ t[i] # 34 THEN JsonFail
        ELSE IF ~k.ok \/ c > Len(t) \/ t[c] # 58 THEN JsonFail
        ELSE IF ~v.ok \/ d > Len(t) THEN JsonFail
        ELSE IF t[d] = 44 THEN JsonMembers(t, d + 1, acc \o v.evs)
        ELSE IF t[d] = 125 THEN JsonDone(d + 1, acc \o v.evs)
        ELSE JsonFail

\* The elements of an array from position i0, up to and with its ']'.
JsonElements(t, i0, acc) ==
    LET v == JsonValue(t, i0, None)
        d == JsonSkipWs(t, v.next)
    IN  IF ~v.ok \/ d > Len(t) THEN JsonFail
        ELSE IF t[d] = 44 THEN JsonElements(t, d + 1, acc \o v.evs)
        ELSE IF t[d] = 93 THEN JsonDone(d + 1, acc \o v.evs)
        ELSE JsonFail

\* The whole text is one value.
JsonDecode(t) ==
    LET r == JsonValue(t, 1, None)
    IN  IF r.ok /\ JsonSkipWs(t, r.next) = Len(t) + 1 THEN r ELSE JsonFail

\* What a decoder is to read for event e.
ItemOf(e) ==
    CASE e.kind \in {"u64", "i64"} -> Tok("num", e.key, <<>>, e.val, FALSE)
      [] e.kind = "bool" -> Tok("bool", e.key, <<>>, 0, e.val)
      [] e.kind = "null" -> Tok("null", e.key, <<>>, 0, FALSE)
      [] e.kind = "str"  -> Tok("str", e.key, e.val, 0, FALSE)
      [] e.kind = "fmt"  -> Tok("str", e.key, e.val.text, 0, FALSE)
      [] OTHER -> Tok(e.kind, e.key, <<>>, 0, FALSE)

\* Along the events, every item of the top level and of a map has a key and
\* every item of an array has none; `open` holds the kinds of the open
\* containers.
RECURSIVE KeysFit(_, _, _)
KeysFit(evs, i, open) ==
    IF i > Len(evs) THEN TRUE
    ELSE LET e == evs[i]
             keyed == open = <<>> \/ open[Len(open)] = "map"
         IN  IF e.kind \in CloseKinds
             THEN KeysFit(evs, i + 1, SubSeq(open, 1, Len(open) - 1))
             ELSE /\ (e.key # None) = keyed
                  /\ KeysFit(evs, i + 1,
                             IF e.kind \in OpenKinds THEN Append(open, e.kind) ELSE open)

\* C11. JSON round-trip: after a well-nested stream with every container
\* closed, items of the top level and of maps keyed, items of arrays not keyed,
\* and no f64, the JSON renderer's output between '{' and '}' is a JSON text,
\* and decodes to the items of the stream: same nesting, same keys, same
\* strings, numbers, booleans and nulls, in the same order.
C11_JsonRoundTrip ==
    (/\ pc = "done"
     /\ nested
     /\ stack = <<>>
     /\ KeysFit(events, 1, <<>>)
     /\ \A i \in 1..Len(events) : events[i].kind # "f64") =>
        LET d == JsonDecode(<<123>> \o Bytes(kvjson) \o <<125>>)
        IN  /\ d.ok
            /\ d.evs = <<Tok("map", None, <<>>, 0, FALSE)>>
                       \o [i \in 1..Len(events) |-> ItemOf(events[i])]
                       \o <<Tok("mapend", None, <<>>, 0, FALSE)>>

\* {"\"\t":[-1234,"\\\u001F\""]}: a key and a string value with escapes, inside
\* an array.
C11_Witness ==
    /\ pc = "done"
    /\ stack = <<>>
    /\ Len(events) = 4
    /\ events[1] = [kind |-> "arr", key |-> Some(<<34, 9>>)]
    /\ events[2].kind = "i64"
    /\ events[3].kind = "str"
    /\ events[3].val = <<92, 31, 34>>
    /\ Bytes(kvjson) = <<34, 92, 34, 92, 117, 48, 48, 48, 57, 34, 58, 91,
                         45, 49, 50, 51, 52, 44,
                         34, 92, 92, 92, 117, 48, 48, 49, 70, 92, 34, 34, 93>>
    /\ JsonDecode(<<123>> \o Bytes(kvjson) \o <<125>>).ok

----------------------------------------------------------------------------
\* Events after a failure

\* The write calls the last event made.
LastCalls(r) == Visitor(r).fmt.calls - mark[r].calls

\* The fewest write calls the handler of event e makes when it runs through,
\* one for each of its writes (a write! or a quoted text makes no call after
\* one the sink rejects): the pending separator; for a present key, the key
\* and (in JSON, and for a single-line scalar) the character after it; the
\* value or the bracket.
FewestCalls(r, e) ==
    IF e.kind \in CloseKinds THEN 1
    ELSE 1
         + (IF e.key = None THEN 0
            ELSE IF r = "kvjson" \/ e.kind \in ScalarKinds THEN 2
            ELSE 1)
         + (IF r = "kvdisp" /\ e.kind = "null" THEN 0 ELSE 1)

\* The handler of the last event ran through, and fmt has not returned.
Processed(r) ==
    LET e == LastEvent
        v == Visitor(r)
    IN  /\ result[r] = "none"
        /\ LastCalls(r) >= FewestCalls(r, e)
        /\ v.prefix = (IF e.kind \in OpenKinds THEN <<>> ELSE SepToken(r))
        /\ e.kind \notin CloseKinds => ~v.empty

\* C12. Traversal always completes: whether or not a write has failed, the
\* handler of every event the callback issues runs through (each of its writes
\* is attempted, the pending separator is updated) and nothing is reported while
\* the callback runs; with the error flag set the callback can still issue its
\* next event and can still return; when it has returned, fmt returns Err.
C12_TraversalCompletes ==
    /\ (pc = "scan" /\ events # <<>>) => Processed("kvdisp") /\ Processed("kvjson")
    /\ (pc = "scan" /\ (kvdisp.error \/ kvjson.error)) =>
           /\ ENABLED Finish
           /\ Len(events) < MaxFailEvents =>
                  /\ ENABLED KvStr(MaxFailEvents, None, <<97, SPACE, 98>>)
                  /\ ENABLED KvMap(MaxFailEvents, None)
                  /\ ENABLED KvArrEnd(MaxFailEvents, None)
    /\ pc = "done" =>
           /\ kvdisp.error => result.kvdisp = "err"
           /\ kvjson.error => result.kvjson = "err"

\* Every write call fails from the first on; the second event, k=0, still
\* makes four write calls in each renderer (in JSON the quoted key returns at
\* its first call, the '"').
C12_Witness ==
    /\ pc = "scan"
    /\ sink = [mode |-> "from", at |-> 1]
    /\ Len(events) = 2
    /\ events[2].kind = "u64"
    /\ events[2].key = Some(<<107>>)
    /\ mark.kvdisp.calls > 0
    /\ kvdisp.error
    /\ kvjson.error
    /\ LastCalls("kvdisp") = 4
    /\ LastCalls("kvjson") = 4
    /\ Bytes(kvdisp) = <<>>

----------------------------------------------------------------------------
\* The events of one visit call

\* The one visit call of the callback, once it has run.
Visited == pc = "scan" /\ events # <<>> /\ Len(kvscan) = 1
TheCall == kvscan[1]

\* The positions, among events 2 .. Len - 1, of the events issued at the level
\* directly inside the outermost container: where its children begin.
RECURSIVE ChildStarts(_, _, _, _)
ChildStarts(evs, i, depth, acc) ==
    IF i >= Len(evs) THEN acc
    ELSE ChildStarts(evs, i + 1,
                     IF evs[i].kind \in OpenKinds THEN depth + 1
                     ELSE IF evs[i].kind \in CloseKinds THEN depth - 1
                     ELSE depth,
                     IF depth = 0 THEN Append(acc, i) ELSE acc)

\* The kind of the first event of a visit of a value of type ty, for the types
\* other than char, u128 and i128.
FirstKindOf(ty) ==
    LET t == Head(ty)
    IN  CASE t \in UnsignedTypes -> "u64"
          [] t \in SignedTypes   -> "i64"
          [] t \in FloatTypes    -> "f64"
          [] t \in StringTypes   -> "str"
          [] t = "bool"          -> "bool"
          [] t = "unit"          -> "null"
          [] t = "Arguments"     -> "fmt"
          [] t \in ArrTypes      -> "arr"
          [] t \in MapTypes      -> "map"

\* C14. Container dispatch: the visit of a sequence container with key k
\* issues kv_arr(k) first and kv_arrend(k) last; between them, at the level of
\* its elements, one child per element, in iteration order, each begun by an
\* event with no key.  The visit of a map issues kv_map(k) and kv_mapend(k),
\* and one child per entry, in iteration order, each begun by an event with
\* the entry's own key.  Each child begins with the event of its type, a
\* scalar child carries the element's value, and k goes to no child.
C14_ContainerDispatch ==
    (Visited /\ Head(TheCall.ty) \in ArrTypes \cup MapTypes) =>
        LET c == TheCall
            n == Len(events)
            isArr == Head(c.ty) \in ArrTypes
            kids == ChildStarts(events, 2, 0, <<>>)
            elem == Tail(c.ty)
        IN  /\ n >= 2
            /\ events[1] = [kind |-> IF isArr THEN "arr" ELSE "map", key |-> c.key]
            /\ events[n] = [kind |-> IF isArr THEN "arrend" ELSE "mapend", key |-> c.key]
            /\ Len(kids) = Len(c.val)
            /\ \A i \in 1..Len(kids) :
                   LET e == events[kids[i]]
                       v == IF isArr THEN c.val[i] ELSE c.val[i][2]
                   IN  /\ e.key = IF isArr THEN None ELSE Some(c.val[i][1])
                       /\ Head(elem) \notin DisplayTypes => e.kind = FirstKindOf(elem)
                       /\ Head(elem) \in UnsignedTypes \cup SignedTypes \cup StringTypes
                                         \cup {"bool"} => e.val = v
            /\ Len(elem) = 1 => n = Len(c.val) + 2

\* A HashMap<_, u8> visited with the key "k", yielding ("k", 255) then ("j", 0):
\* k{k=255 j=0}.
C14_Witness ==
    /\ Visited
    /\ TheCall.ty = <<"HashMap", "u8">>
    /\ TheCall.key = Some(<<107>>)
    /\ Len(events) = 4
    /\ events[1] = [kind |-> "map", key |-> Some(<<107>>)]
    /\ events[2] = [kind |-> "u64", key |-> Some(<<107>>), val |-> 255]
    /\ events[3] = [kind |-> "u64", key |-> Some(<<106>>), val |-> 0]
    /\ events[4] = [kind |-> "mapend", key |-> Some(<<107>>)]
    /\ Bytes(kvdisp) = <<SPACE, 107, LBRACE, 107, EQUALS, 50, 53, 53, SPACE,
                         106, EQUALS, 48, RBRACE>>

\* C15. Numeric widening: the visit of a u8, u16, u32, u64 or usize issues one
\* kv_u64 with the same numeric value, and the visit of an i8, i16, i32, i64
\* or isize issues one kv_i64 with the same numeric value, its sign included;
\* the key is passed on, and both renderers write the value's decimal text
\* (compared for every value but the least one of the model's integers).
C15_NumericWidening ==
    (Visited /\ Len(TheCall.ty) = 1
             /\ Head(TheCall.ty) \in UnsignedTypes \cup SignedTypes) =>
        LET c == TheCall
            signed == Head(c.ty) \in SignedTypes
        IN  /\ Len(events) = 1
            /\ events[1].kind = IF signed THEN "i64" ELSE "u64"
            /\ events[1].key = c.key
            /\ events[1].val = c.val
            /\ (events[1].val < 0) = (c.val < 0)
            /\ \A r \in Renderers :
                   LET b == Bytes(Visitor(r))
                       n == Len(b)
                   IN  /\ (\E i \in 1..n : b[i] = 45) = (c.val < 0)
                       /\ c.val > 0 - 2147483647 - 1 =>
                              \E i \in 2..n :
                                  /\ b[i - 1] \in {SPACE, EQUALS, COLON}
                                  /\ IsDecimalOf(SubSeq(b, i, n), c.val)

\* An i8 of -128 visited with the key "k": one kv_i64 of -128, k=-128.
C15_Witness ==
    /\ Visited
    /\ TheCall.ty = <<"i8">>
    /\ TheCall.val = 0 - 128
    /\ TheCall.key = Some(<<107>>)
    /\ events = <<[kind |-> "i64", key |-> Some(<<107>>), val |-> 0 - 128]>>
    /\ Bytes(kvdisp) = <<SPACE, 107, EQUALS, 45, 49, 50, 56>>
    /\ Bytes(kvjson) = <<SPACE, DQUOTE, 107, DQUOTE, COLON, 45, 49, 50, 56>>

\* A char, a u128 or an i128 visited on its own.
DisplayVisited == Visited /\ Len(TheCall.ty) = 1 /\ Head(TheCall.ty) \in DisplayTypes

\* text is the default display text of val: the character itself, the decimal
\* text of the integer (compared for every value but the least one of the
\* model's integers).
IsDisplayText(t, val, text) ==
    IF t = "char" THEN text = <<val>>
    ELSE val > 0 - 2147483647 - 1 => IsDecimalOf(text, val)

\* C16 as stated: the visit of a char, a u128 or an i128 issues one kv_str
\* whose text is the value's default display text.
C16_ScalarString ==
    DisplayVisited =>
        /\ Len(events) = 1
        /\ events[1].kind = "str"
        /\ events[1].key = TheCall.key
        /\ IsDisplayText(Head(TheCall.ty), TheCall.val, events[1].val)

\* C16, amended.  The visit of a char, a u128 or an i128 issues one kv_fmt with
\* the key passed on, whose value formats without error to the value's default
\* display text; each renderer writes for it what it writes for a kv_str of
\* that text.
C16_ScalarFmtDisplay ==
    DisplayVisited =>
        /\ Len(events) = 1
        /\ events[1].kind = "fmt"
        /\ events[1].key = TheCall.key
        /\ ~events[1].val.err
        /\ IsDisplayText(Head(TheCall.ty), TheCall.val, events[1].val.text)
        /\ Bytes(kvdisp) = Bytes(kvdisp_kv_str(kvdisp_new(callerPrefix), TheCall.key,
                                               events[1].val.text))
        /\ Bytes(kvjson) = Bytes(kvjson_kv_str(kvjson_new(callerPrefix), TheCall.key,
                                               events[1].val.text))

\* The char '"' visited with the key "k": one kv_fmt, k="\22" and "k":"\"".
C16_Witness ==
    /\ DisplayVisited
    /\ TheCall.ty = <<"char">>
    /\ TheCall.val = DQUOTE
    /\ TheCall.key = Some(<<107>>)
    /\ events[1].kind = "fmt"
    /\ events[1].val.text = <<DQUOTE>>
    /\ Bytes(kvdisp) = <<SPACE, 107, EQUALS, DQUOTE, BACKSLASH, 50, 50, DQUOTE>>
    /\ Bytes(kvjson) = <<SPACE, DQUOTE, 107, DQUOTE, COLON, DQUOTE, BACKSLASH, DQUOTE, DQUOTE>>

----------------------------------------------------------------------------
\* The arguments of a logging macro call

\* The key of a key-value argument: the name of the last identifier of a
\* path, the name of the identifier before ':', the text of a literal key.
KeyOfArg(arg) ==
    CASE arg.form = "path"    -> stringify(arg.path[Len(arg.path)])
      [] arg.form = "ident"   -> stringify(arg.path[1])
      [] arg.form = "literal" -> arg.lit

\* The text logged for the %- and ?-arguments of LogArgs: 255, true, ab, "ab",
\* () and -7.
TextOfArg(arg) ==
    CASE arg.sigil = "%" /\ arg.expr = "s.k"   -> <<50, 53, 53>>
      [] arg.sigil = "%" /\ arg.expr = "j"     -> <<116, 114, 117, 101>>
      [] arg.sigil = "%" /\ arg.expr = "s.j.k" -> <<97, 98>>
      [] arg.sigil = "?" /\ arg.expr = "s.j.k" -> <<DQUOTE, 97, 98, DQUOTE>>
      [] arg.sigil = "?" /\ arg.expr = "()"    -> <<40, 41>>
      [] arg.sigil = "?" /\ arg.expr = "-7i16" -> <<45, 55>>

\* The callback of the macro call has run.
ClosureRan == pc = "done" \/ (pc = "scan" /\ (events # <<>> \/ kvscan = <<>>))

\* C17. Macro argument order: the callback built for a logging macro call (one
\* that compiles) with the key-value arguments kv1 .. kvN makes N visit calls,
\* the i-th one for
\* kvi: with kvi's key (the name of the last identifier of a path, the name
\* before ':', the literal) and kvi's value (as it is for a plain argument,
\* its Display or Debug text for % and ?).  Every value of LogArgs being a
\* scalar, the callback issues N events, the i-th with kvi's key and value.
C17_MacroArgumentOrder ==
    /\ Len(kvscan) = Len(args)
    /\ \A i \in 1..Len(args) :
           /\ kvscan[i].key = Some(KeyOfArg(args[i]))
           /\ kvscan[i].ty = IF args[i].sigil = "" THEN eval(args[i].expr).ty
                             ELSE <<"Arguments">>
    /\ ClosureRan =>
           /\ Len(events) = Len(args)
           /\ \A i \in 1..Len(args) :
                  /\ events[i].key = Some(KeyOfArg(args[i]))
                  /\ IF args[i].sigil = ""
                     THEN /\ events[i].kind = FirstKindOf(eval(args[i].expr).ty)
                          /\ events[i].kind # "null" => events[i].val = eval(args[i].expr).val
                     ELSE /\ events[i].kind = "fmt"
                          /\ events[i].val = [text |-> TextOfArg(args[i]), err |-> FALSE]

\* error!([cx], "": %j, s: -7i16, s.k, "..") has been rendered: \20=true s=-7 k=255.
C17_Witness ==
    /\ pc = "done"
    /\ Len(args) = 3
    /\ args[1] = [sigil |-> "%", form |-> "literal", path |-> <<>>, lit |-> <<>>, expr |-> "j"]
    /\ args[2] = [sigil |-> "", form |-> "ident", path |-> <<"s">>, lit |-> <<>>,
                  expr |-> "-7i16"]
    /\ args[3] = [sigil |-> "", form |-> "path", path |-> <<"s", "k">>, lit |-> <<>>,
                  expr |-> "s.k"]
    /\ Len(events) = 3
    /\ events[1].key = Some(<<>>) /\ events[1].kind = "fmt"
    /\ events[2].key = Some(<<115>>) /\ events[2].val = 0 - 7
    /\ events[3].key = Some(<<107>>) /\ events[3].val = 255
    /\ Bytes(kvdisp) = <<SPACE, BACKSLASH, 50, 48, EQUALS, 116, 114, 117, 101,
                         SPACE, 115, EQUALS, 45, 55, SPACE, 107, EQUALS, 50, 53, 53>>

----------------------------------------------------------------------------
\* A reference renderer with one pending separator per open nesting level

\* What renderer r writes for event e apart from any separator: the bytes it
\* writes for e from a new state whose pending separator is empty.
RefItem(r, e) ==
    IF r = "kvdisp" THEN Bytes(kvdisp_handle(kvdisp_new(<<>>), e))
    ELSE Bytes(kvjson_handle(kvjson_new(<<>>), e))

\* The bytes of the reference renderer for evs from the i-th event on: seps is
\* its stack, the pending separator of the innermost level last.  An item
\* writes its level's separator and makes the separator token pending at its
\* level; an Open moreover pushes an empty separator; a Close pops.
RECURSIVE RefRender(_, _, _, _, _)
RefRender(r, evs, i, seps, out) ==
    IF i > Len(evs) THEN out
    ELSE LET e == evs[i]
             n == Len(seps)
             used == [seps EXCEPT ![n] = SepToken(r)]
         IN  CASE e.kind \in OpenKinds ->
                      RefRender(r, evs, i + 1, Append(used, <<>>),
                                out \o seps[n] \o RefItem(r, e))
               [] e.kind \in CloseKinds ->
                      RefRender(r, evs, i + 1, SubSeq(seps, 1, n - 1),
                                out \o RefItem(r, e))
               [] OTHER ->
                      RefRender(r, evs, i + 1, used, out \o seps[n] \o RefItem(r, e))

\* C18. Separator push/pop refinement: for every well-nested event sequence
\* (every Close so far closing the innermost open container) each renderer,
\* with its one pending-separator variable, has written exactly the bytes of
\* the reference renderer that starts with the caller's prefix pending at the
\* top level, followed by the suffix once the call is over.
C18_SeparatorStackRefinement ==
    nested =>
        \A r \in Renderers :
            Bytes(Visitor(r)) =
                RefRender(r, events, 1, <<callerPrefix>>, <<>>)
                \o (IF pc = "done" /\ events # <<>> THEN suffix ELSE <<>>)

\* kv_map("k"), kv_arr(None), kv_arrend(None), kv_u64("k", 0) after the prefix
\* ",": the item after the Close is separated at its parent's level,
\* ,"k":{[],"k":0 and ,k{[] k=0.
C18_Witness ==
    /\ pc = "scan"
    /\ nested
    /\ callerPrefix = <<COMMA>>
    /\ Len(events) = 4
    /\ events[1] = [kind |-> "map", key |-> Some(<<107>>)]
    /\ events[2] = [kind |-> "arr", key |-> None]
    /\ events[3] = [kind |-> "arrend", key |-> None]
    /\ events[4].kind = "u64" /\ events[4].key = Some(<<107>>)
    /\ Len(stack) = 1
    /\ Bytes(kvjson) = <<COMMA, DQUOTE, 107, DQUOTE, COLON, LBRACE, LBRACKET, RBRACKET,
                         COMMA, DQUOTE, 107, DQUOTE, COLON, 48>>
    /\ Bytes(kvdisp) = <<COMMA, 107, LBRACE, LBRACKET, RBRACKET, SPACE, 107, EQUALS, 48>>

----------------------------------------------------------------------------
\* Writes after a failed write

\* A write call of renderer r had failed before the last event was issued.
FailedBeforeLast(r) == events # <<>> /\ mark[r].calls > mark[r].log

\* The write calls the handler of event e makes when the sink accepts them
\* all: counted on a Formatter that is past the one call a "once" sink rejects.
CallsWhenAccepted(r, e) ==
    IF r = "kvdisp"
    THEN kvdisp_handle([kvdisp_new(<<>>) EXCEPT !.fmt.calls = sink.at], e).fmt.calls - sink.at
    ELSE kvjson_handle([kvjson_new(<<>>) EXCEPT !.fmt.calls = sink.at], e).fmt.calls - sink.at

\* C19 as stated: once a write has failed (and the sticky error flag is set),
\* an event issued later makes no write call on the sink.
C19_WritesShortCircuited ==
    \A r \in Renderers : FailedBeforeLast(r) => LastCalls(r) = 0

\* C19, amended.  Writes are not short-circuited: the error flag stays set, and
\* an event issued after a write has failed still makes write calls on the
\* sink (at least the one of its pending separator or bracket); when the sink
\* rejected one call only, the event makes every write call of its handler and
\* all of them reach the sink.
C19_WritesStillAttempted ==
    \A r \in Renderers :
        FailedBeforeLast(r) =>
            /\ Visitor(r).error
            /\ LastCalls(r) >= 1
            /\ (sink.mode = "once" /\ pc = "scan") =>
                   /\ LastCalls(r) = CallsWhenAccepted(r, LastEvent)
                   /\ Len(Log(r)) - mark[r].log = LastCalls(r)

\* The sink rejects the first write call only; the second event, k=0, is
\* written in full: k=0 and "k":0.
C19_Witness ==
    /\ pc = "scan"
    /\ sink = [mode |-> "once", at |-> 1]
    /\ Len(events) = 2
    /\ events[1].kind = "u64" /\ events[1].key = None
    /\ events[2].kind = "u64" /\ events[2].key = Some(<<107>>)
    /\ FailedBeforeLast("kvdisp") /\ FailedBeforeLast("kvjson")
    /\ kvdisp.error /\ kvjson.error
    /\ LastCalls("kvdisp") = 4
    /\ LastCalls("kvjson") = 6
    /\ Bytes(kvdisp) = <<48, SPACE, 107, EQUALS, 48>>
    /\ Bytes(kvjson) = <<48, COMMA, DQUOTE, 107, DQUOTE, COLON, 48>>

----------------------------------------------------------------------------
\* C20. Malformed nesting is never an error: with a sink that never fails, for
\* every event sequence (Closes with nothing open, of the other kind, with a
\* different key, Opens left unclosed) no write call is rejected, neither
\* error flag is ever set, the callback can issue any Close next and can
\* return, and once it has returned both formatting calls return Ok.
C20_MalformedNestingNoError ==
    /\ \A r \in Renderers :
           /\ ~Visitor(r).error
           /\ ~WriteFailed(r)
           /\ result[r] # "err"
           /\ pc = "done" => result[r] = "ok"
    /\ pc = "scan" =>
           /\ ENABLED Finish
           /\ Len(events) < MaxEvents =>
                  \A key \in NestKeys :
                      /\ ENABLED KvMapEnd(MaxEvents, key)
                      /\ ENABLED KvArrEnd(MaxEvents, key)

\* kv_arrend(None) with nothing open, kv_map("k"), kv_arrend(None) of the other
\* kind and key, kv_arr("k") left open, between "," and "}": ] k{] k[} and
\* ],"k":{],"k":[}.
C20_Witness ==
    /\ pc = "done"
    /\ ~nested
    /\ callerPrefix = <<COMMA>>
    /\ Len(events) = 4
    /\ events[1] = [kind |-> "arrend", key |-> None]
    /\ events[2] = [kind |-> "map", key |-> Some(<<107>>)]
    /\ events[3] = [kind |-> "arrend", key |-> None]
    /\ events[4] = [kind |-> "arr", key |-> Some(<<107>>)]
    /\ stack # <<>>
    /\ result = [kvdisp |-> "ok", kvjson |-> "ok"]
    /\ Bytes(kvdisp) = <<RBRACKET, SPACE, 107, LBRACE, RBRACKET, SPACE, 107, LBRACKET,
                         RBRACE>>
    /\ Bytes(kvjson) = <<RBRACKET, COMMA, DQUOTE, 107, DQUOTE, COLON, LBRACE, RBRACKET,
                         COMMA, DQUOTE, 107, DQUOTE, COLON, LBRACKET, RBRACE>>

----------------------------------------------------------------------------
\* The flags of a Visitor from one step to the next

\* From v to w (the same Visitor one step later, after event e if the step
\* issued one): a set error flag stays set, a cleared `empty` stays cleared,
\* and the error flag becomes set only when a write call on the sink was
\* rejected in the step or the step's write! into fmtbuf returned Err.
FlagsStep(v, w, issued, e) ==
    /\ v.error => w.error
    /\ ~v.empty => ~w.empty
    /\ (~v.error /\ w.error) =>
           \/ w.fmt.calls - v.fmt.calls > Len(w.fmt.log) - Len(v.fmt.log)
           \/ issued /\ e.kind = "fmt" /\ e.val.err

\* C21. Flag monotonicity: within one formatting call no step clears a set
\* error flag, no step sets `empty` again once it is false, and the error flag
\* is set only in a step in which a write (on the sink or into the scratch
\* buffer) returned Err.
C21_FlagMonotonicity ==
    [][/\ FlagsStep(kvdisp, kvdisp', Len(events') > Len(events), events'[Len(events')])
       /\ FlagsStep(kvjson, kvjson', Len(events') > Len(events), events'[Len(events')])]_vars

\* A kv_fmt whose Display returned Err set both error flags, the single-line
\* renderer's with no write call rejected; after one more event they are still
\* set.
C21_Witness ==
    /\ pc = "scan"
    /\ Len(events) = 2
    /\ events[1].kind = "fmt"
    /\ events[1].val.err
    /\ events[2].kind = "null"
    /\ ~WriteFailed("kvdisp")
    /\ kvdisp.error /\ kvjson.error
    /\ ~kvdisp.empty /\ ~kvjson.empty

----------------------------------------------------------------------------
\* Balanced event streams

\* The events of evs from the i-th on are balanced against the containers
\* `open` (innermost last): a Close finds a container open, of its kind and
\* with its key, and closes it; at the end none is open.
RECURSIVE Balanced(_, _, _)
Balanced(evs, i, open) ==
    IF i > Len(evs) THEN open = <<>>
    ELSE LET e == evs[i]
             n == Len(open)
         IN  CASE e.kind \in OpenKinds ->
                      Balanced(evs, i + 1, Append(open, [kind |-> e.kind, key |-> e.key]))
               [] e.kind \in CloseKinds ->
                      /\ n > 0
                      /\ open[n].kind = (IF e.kind = "mapend" THEN "map" ELSE "arr")
                      /\ open[n].key = e.key
                      /\ Balanced(evs, i + 1, SubSeq(open, 1, n - 1))
               [] OTHER -> Balanced(evs, i + 1, open)

\* Opens and Closes among the first n events.
CountKinds(evs, n, kinds) == Cardinality({i \in 1..n : evs[i].kind \in kinds})

\* The deepest nesting reached by evs.
RECURSIVE DeepestOpen(_, _, _, _)
DeepestOpen(evs, i, depth, most) ==
    IF i > Len(evs) THEN most
    ELSE IF evs[i].kind \in OpenKinds
         THEN DeepestOpen(evs, i + 1, depth + 1, IF depth + 1 > most THEN depth + 1 ELSE most)
         ELSE IF evs[i].kind \in CloseKinds THEN DeepestOpen(evs, i + 1, depth - 1, most)
         ELSE DeepestOpen(evs, i + 1, depth, most)

\* C22. Dispatch produces well-nested streams: the events of the visit of any
\* value of the provided types are balanced.  At every point there are no more
\* Closes than Opens, every Close closes the innermost open container, of its
\* kind and with its key, there are as many Closes as Opens, and none is open
\* at the end.
C22_DispatchWellNested ==
    Visited =>
        /\ Balanced(events, 1, <<>>)
        /\ \A n \in 1..Len(events) :
               CountKinds(events, n, CloseKinds) <= CountKinds(events, n, OpenKinds)
        /\ CountKinds(events, Len(events), CloseKinds)
               = CountKinds(events, Len(events), OpenKinds)

\* A HashMap of BTreeMaps of (), {"j": {"k": ()}, "k": {}}, visited with the
\* key "k": three Opens, two levels, k{j{k} k{}}.
C22_Witness ==
    /\ Visited
    /\ TheCall.ty = <<"HashMap", "BTreeMap", "unit">>
    /\ TheCall.key = Some(<<107>>)
    /\ Len(events) = 7
    /\ CountKinds(events, 7, OpenKinds) = 3
    /\ DeepestOpen(events, 1, 0, 0) = 2
    /\ events[2] = [kind |-> "map", key |-> Some(<<106>>)]
    /\ events[4] = [kind |-> "mapend", key |-> Some(<<106>>)]
    /\ Bytes(kvdisp) = <<SPACE, 107, LBRACE, 106, LBRACE, 107, RBRACE, SPACE,
                         107, LBRACE, RBRACE, RBRACE>>

----------------------------------------------------------------------------
\* C23. Lazily-formatted events render like string events: a kv_fmt(key, args)
\* makes on each renderer's Formatter exactly the writes that kv_str(key, text)
\* makes from the same state, text being what args alone formats to, and leaves
\* the same pending separator and flags; afterwards the scratch buffer holds
\* that text and nothing of an earlier kv_fmt.
C23_FmtRendersLikeStr ==
    [][(Len(events') > Len(events) /\ events'[Len(events')].kind = "fmt") =>
           LET e == events'[Len(events')]
               d == kvdisp_kv_str(kvdisp, e.key, e.val.text)
               j == kvjson_kv_str(kvjson, e.key, e.val.text)
           IN  /\ kvdisp'.fmt = d.fmt
               /\ kvjson'.fmt = j.fmt
               /\ kvdisp'.prefix = d.prefix /\ kvjson'.prefix = j.prefix
               /\ kvdisp'.empty = d.empty /\ kvjson'.empty = j.empty
               /\ kvdisp'.error = d.error /\ kvjson'.error = j.error
               /\ kvdisp'.fmtbuf = e.val.text
               /\ kvjson'.fmtbuf = e.val.text]_vars

\* kv_fmt(None, "abc d") then kv_fmt("k", "a\""): nothing of the longer first
\* text is in the second item, "abc d" k="a\22" and "abc d","k":"a\"".
C23_Witness ==
    /\ pc = "scan"
    /\ callerPrefix = <<SPACE>>
    /\ Len(events) = 2
    /\ events[1] = [kind |-> "fmt", key |-> None,
                    val |-> [text |-> <<97, 98, 99, SPACE, 100>>, err |-> FALSE]]
    /\ events[2] = [kind |-> "fmt", key |-> Some(<<107>>),
                    val |-> [text |-> <<97, DQUOTE>>, err |-> FALSE]]
    /\ kvdisp.fmtbuf = <<97, DQUOTE>>
    /\ kvjson.fmtbuf = <<97, DQUOTE>>
    /\ Bytes(kvdisp) = <<SPACE, DQUOTE, 97, 98, 99, SPACE, 100, DQUOTE, SPACE,
                         107, EQUALS, DQUOTE, 97, BACKSLASH, 50, 50, DQUOTE>>
    /\ Bytes(kvjson) = <<SPACE, DQUOTE, 97, 98, 99, SPACE, 100, DQUOTE, COMMA,
                         DQUOTE, 107, DQUOTE, COLON, DQUOTE, 97, BACKSLASH, DQUOTE, DQUOTE>>

----------------------------------------------------------------------------
\* The two renderers side by side

\* Which pending separator the events issued so far call for: the caller's
\* prefix before any event, none after an Open, the separator token after any
\* other event.
PendingClass ==
    IF events = <<>> THEN "caller"
    ELSE IF LastEvent.kind \in OpenKinds THEN "empty"
    ELSE "token"

PendingText(r, class) ==
    CASE class = "caller" -> callerPrefix
      [] class = "empty"  -> <<>>
      [] class = "token"  -> SepToken(r)

\* fmt wrote the suffix.
SuffixWritten(r) == Log(r) # <<>> /\ Log(r)[Len(Log(r))].site = "suffix"

\* C24. Identical discipline in both encoders: after every event of any
\* sequence, well-nested or not, the two renderers' `empty` flags are equal and
\* their pending separators correspond (both the caller's prefix, both empty,
\* or each its separator token); with a sink that accepts every write both
\* formatting calls return the same result and both or neither write the
\* suffix.
C24_IdenticalDiscipline ==
    /\ kvdisp.empty = kvjson.empty
    /\ \A r \in Renderers : Visitor(r).prefix = PendingText(r, PendingClass)
    /\ pc = "done" =>
           /\ result.kvdisp = result.kvjson
           /\ SuffixWritten("kvdisp") = SuffixWritten("kvjson")
           /\ SuffixWritten("kvdisp") = ~kvdisp.empty

\* kv_arrend(None) with nothing open, then kv_map(None), between "{" and "}":
\* both have emitted an item, neither has a separator pending, both write the
\* suffix: ] {} and ],{}.
C24_Witness ==
    /\ pc = "done"
    /\ ~nested
    /\ callerPrefix = <<LBRACE>>
    /\ events = <<[kind |-> "arrend", key |-> None], [kind |-> "map", key |-> None]>>
    /\ ~kvdisp.empty /\ ~kvjson.empty
    /\ kvdisp.prefix = <<>> /\ kvjson.prefix = <<>>
    /\ result = [kvdisp |-> "ok", kvjson |-> "ok"]
    /\ Bytes(kvdisp) = <<RBRACKET, SPACE, LBRACE, RBRACE>>
    /\ Bytes(kvjson) = <<RBRACKET, COMMA, LBRACE, RBRACE>>

----------------------------------------------------------------------------
\* The suffix left out

\* fmt of renderer r has returned Ok with `empty` still true.
SuffixSuppressed(r) == pc = "done" /\ result[r] = "ok" /\ Visitor(r).empty

\* The closing brackets of the events evs, in order.
RECURSIVE CloseBrackets(_)
CloseBrackets(evs) ==
    IF evs = <<>> THEN <<>>
    ELSE (IF evs[1].kind = "mapend" THEN <<RBRACE>> ELSE <<RBRACKET>>)
         \o CloseBrackets(Tail(evs))

\* C25 as stated: for every event sequence, when fmt returns Ok with `empty`
\* still true, nothing is in the sink and the caller's prefix is still the
\* pending separator.
C25_SuppressedSuffixNothingWritten ==
    \A r \in Renderers :
        SuffixSuppressed(r) =>
            /\ Bytes(Visitor(r)) = <<>>
            /\ Visitor(r).prefix = callerPrefix

\* C25, amended.  When fmt returns Ok with `empty` still true the suffix is not
\* written and the callback has issued nothing but Closes.  For a well-nested
\* sequence (no Close with nothing open) it has issued nothing: no write call
\* was made and the caller's prefix is still the pending separator.  Otherwise
\* the sink holds the closing brackets of those Closes and the separator token
\* is pending.
C25_SuppressedSuffixWellNested ==
    \A r \in Renderers :
        SuffixSuppressed(r) =>
            /\ ~SuffixWritten(r)
            /\ \A i \in 1..Len(events) : events[i].kind \in CloseKinds
            /\ nested =>
                   /\ events = <<>>
                   /\ Visitor(r).fmt.calls = 0
                   /\ Bytes(Visitor(r)) = <<>>
                   /\ Visitor(r).prefix = callerPrefix
            /\ events # <<>> =>
                   /\ ~nested
                   /\ Bytes(Visitor(r)) = CloseBrackets(events)
                   /\ Visitor(r).prefix = SepToken(r)

\* kv_arrend("k") and kv_mapend(None) with nothing open, between "," and "}":
\* both calls return Ok with ]} in the sink and no suffix.
C25_Witness ==
    /\ SuffixSuppressed("kvdisp") /\ SuffixSuppressed("kvjson")
    /\ callerPrefix = <<COMMA>>
    /\ suffix = <<RBRACE>>
    /\ events = <<[kind |-> "arrend", key |-> Some(<<107>>)],
                  [kind |-> "mapend", key |-> None]>>
    /\ Bytes(kvdisp) = <<RBRACKET, RBRACE>>
    /\ Bytes(kvjson) = <<RBRACKET, RBRACE>>
    /\ kvdisp.prefix = <<SPACE>>
    /\ kvjson.prefix = <<COMMA>>

----------------------------------------------------------------------------
\* Reading a single-line key back

\* The single-line renderer has written a null item with a present key.
KeyRendered == pc = "scan" /\ events # <<>> /\ LastEvent.kind = "null" /\ LastEvent.key # None

\* The key text it wrote.
RenderedKey == SiteText(LastWrites("kvdisp"), "key")

\* The value of an uppercase hexadecimal digit, -1 for any other character.
UpperHexValue(c) ==
    IF c \in 48..57 THEN c - 48
    ELSE IF c \in 65..70 THEN c - 55
    ELSE 0 - 1

\* The key that a key text denotes when every '\' in it begins \XX, the
\* character of value XX: <<-1>> at a '\' that does not.
RECURSIVE KeyDecode(_)
KeyDecode(t) ==
    IF t = <<>> THEN <<>>
    ELSE IF t[1] # BACKSLASH THEN <<t[1]>> \o KeyDecode(Tail(t))
    ELSE IF Len(t) < 3 \/ UpperHexValue(t[2]) < 0 \/ UpperHexValue(t[3]) < 0
         THEN <<0 - 1>>
         ELSE <<16 * UpperHexValue(t[2]) + UpperHexValue(t[3])>>
              \o KeyDecode(SubSeq(t, 4, Len(t)))

\* The keys of at most one character of EscChars, and the key text that the
\* renderer writes for a key from a new state.
ShortKeys == {<<>>} \cup {<<c>> : c \in EscChars}
KeyTextOf(k) == SiteText(kvdisp_kv_null(kvdisp_new(<<>>), Some(k)).fmt.log, "key")

\* C26 as stated: two different present keys, the empty key included, are
\* written as different key texts (the key written compared with every other
\* key of at most one character).
C26_KeyRenderingInjective ==
    KeyRendered =>
        \A k \in ShortKeys : k # LastEvent.key[1] => KeyTextOf(k) # RenderedKey

\* C26, amended.  Two different present keys that are not empty are written as
\* different key texts: the text written for a key that is not empty reads
\* back as that key, and it differs from the text of every other key of at
\* most one character but the empty one.  The empty key is written as \20, as
\* the key of one space is, and as no other key is.
C26_KeyRenderingInjectiveNonEmpty ==
    KeyRendered =>
        LET key == LastEvent.key[1]
        IN  /\ key # <<>> => KeyDecode(RenderedKey) = key
            /\ \A k \in ShortKeys :
                   (k # key /\ {k, key} # {<<>>, <<SPACE>>}) => KeyTextOf(k) # RenderedKey
            /\ key = <<>> =>
                   /\ RenderedKey = <<BACKSLASH, 50, 48>>
                   /\ RenderedKey = KeyTextOf(<<SPACE>>)
            /\ RenderedKey = <<BACKSLASH, 50, 48>> => key \in {<<>>, <<SPACE>>}

\* The key '\', space, 'a' is written as \5C\20a, which reads back as the key.
C26_Witness ==
    /\ KeyRendered
    /\ LastEvent.key = Some(<<BACKSLASH, SPACE, 97>>)
    /\ RenderedKey = <<BACKSLASH, 53, 67, BACKSLASH, 50, 48, 97>>
    /\ KeyDecode(RenderedKey) = <<BACKSLASH, SPACE, 97>>

----------------------------------------------------------------------------
\* The key of a Close

\* The positions of the Closes among the events.
ClosePositions == {i \in 1..Len(events) : events[i].kind \in CloseKinds}

\* Renderer r's Visitor after the callback has issued evs to a new one.
Replayed(r, evs) ==
    IF r = "kvdisp" THEN kvdisp_kvscan(kvdisp_new(callerPrefix), evs, 1)
    ELSE kvjson_kvscan(kvjson_new(callerPrefix), evs, 1)

\* C27. Close key does not influence output: with the key of any one kv_mapend
\* or kv_arrend of the sequence replaced by any other key or by none, each
\* renderer makes the same write calls with the same outcomes (so the same
\* bytes are in the sink) and has the same pending separator, `empty` flag and
\* error flag after the last event.
C27_CloseKeyIgnored ==
    pc = "scan" =>
        \A i \in ClosePositions : \A key \in Keys : \A r \in Renderers :
            LET w == Replayed(r, [events EXCEPT ![i].key = key])
            IN  /\ w.fmt = Visitor(r).fmt
                /\ w.prefix = Visitor(r).prefix
                /\ w.empty = Visitor(r).empty
                /\ w.error = Visitor(r).error

\* kv_map("k") then kv_mapend(None) with a sink that rejects the third write
\* call, the '{': the error flag is set and k} is in the sink, as with
\* kv_mapend("k").
C27_Witness ==
    /\ pc = "scan"
    /\ sink = [mode |-> "once", at |-> 3]
    /\ events = <<[kind |-> "map", key |-> Some(<<107>>)],
                  [kind |-> "mapend", key |-> None]>>
    /\ ClosePositions = {2}
    /\ kvdisp.error
    /\ ~kvdisp.empty
    /\ kvdisp.prefix = <<SPACE>>
    /\ Bytes(kvdisp) = <<SPACE, 107, RBRACE>>
    /\ Replayed("kvdisp", [events EXCEPT ![2].key = Some(<<107>>)]).fmt = kvdisp.fmt

====
